---- MODULE Spec2Model ----
(***************************************************************************)
(* Phoenix Nest service discovery (pn_discovery): the peer registry, the   *)
(* receive/dispatch path (parse_message), the announce session and the     *)
(* query functions, modelled from src/test/test_discovery.c (lines 145 on  *)
(* hold the implementation) and src/include/pn_discovery.h.                *)
(*                                                                         *)
(* Ten specifications share the state:                                     *)
(*   Spec      every API call and every received datagram is one atomic    *)
(*             step (the registry and dispatch rules);                     *)
(*   SpecApi   the lifecycle calls alone, each one atomic step;            *)
(*   SpecFind  received datagrams and the two lookups, with the pointer    *)
(*             a lookup hands to its caller;                               *)
(*   SpecConc  the caller, the announce thread and the listener thread     *)
(*             interleave at their shared-memory and network accesses;     *)
(*   SpecLife  start, stop and shutdown of the two threads, with the       *)
(*             bounded WaitForSingleObject of the Windows build;           *)
(*   SpecLive  the listener thread, fairly scheduled, and a peer that      *)
(*             stops sending;                                              *)
(*   SpecStop  SpecLife with every thread scheduled fairly;                *)
(*   SpecInterval  one announce session with the seconds of its sleep      *)
(*             counted;                                                    *)
(*   SpecCodec the encoder and the decoder on the text of a presence       *)
(*             message, character by character;                            *)
(*   SpecEncode  the encoder with the capacity of its buffer.              *)
(*                                                                         *)
(* Abstractions: a datagram is the set of keys its text carries plus the   *)
(* value of each (json_get_string / json_get_int look a key up by          *)
(* substring search); strings are short tokens, all within the bounded     *)
(* buffers; last_seen is written and never read by the code, and is left   *)
(* out; udp_port is left out.  One call of broadcast_message is one send   *)
(* (the copies per interface carry the same text); a callback and its      *)
(* userdata are one value.                                                 *)
(***************************************************************************)
EXTENDS Integers, Sequences, FiniteSets, TLC

\* ------------------------------------------------------------------ bounds

\* Registry capacity (32 in the header), scaled down for checking.
PN_MAX_SERVICES == 2

\* Cap on the number of announce sessions the caller starts.
MaxSessions == 2

\* Cap on the broadcasts after which the announce thread's interval no
\* longer elapses (it keeps sleeping until it is stopped).
MaxSent == 3

\* Cap on the datagrams waiting in the receive buffer of the own socket;
\* a datagram arriving at a full buffer is dropped.
MaxNet == 2

\* ------------------------------------------------------------- constants

PN_MAGIC == "PNSD"

NULL == "<NULL>"

\* The address pn_get_local_ip resolved, and the address recvfrom reports.
LocalIp == "10.0.0.1"

SenderIps == {"10.0.0.9"}

Ids == {"A", "B", "C"}

Slots == 1..PN_MAX_SERVICES

\* g_discovery = {0} / memset: one zeroed pn_service_t.
ZeroService ==
    [id |-> "", service |-> "", ip |-> "", ctrl_port |-> 0, data_port |-> 0,
     caps |-> "", active |-> FALSE]

\* What the uninitialised stack buffer caps[] of parse_message may hold when
\* the datagram carries no "caps" key: nothing, or the residue of an earlier
\* datagram.
CapsGarbage == {"", "rsp2pro"}

\* ------------------------------------------------------------- datagrams

Datagram(keys, m, cmd, id, svc, ip, port, data, caps) ==
    [keys |-> keys, m |-> m, cmd |-> cmd, id |-> id, svc |-> svc, ip |-> ip,
     port |-> port, data |-> data, caps |-> caps]

NoMsg == Datagram({}, "", "", "", "", "", 0, 0, "")

\* A presence message as a server sends it: every key present.
HeloFull(id) ==
    Datagram({"m", "v", "cmd", "id", "svc", "ip", "port", "data", "caps", "ts"},
             PN_MAGIC, "helo", id, "sdr_server", "10.0.0.5", 4535, 4536, "rsp2pro")

\* A presence message as a client sends it: data port 0 and empty
\* capabilities are left out by the encoder.
HeloMin(id) ==
    Datagram({"m", "v", "cmd", "id", "svc", "ip", "port", "ts"},
             PN_MAGIC, "helo", id, "waterfall", "10.0.0.6", 0, 0, "")

\* A presence message with an empty service type and empty capabilities;
\* no address and no ports.
HeloBare(id) ==
    Datagram({"m", "cmd", "id", "svc", "caps"}, PN_MAGIC, "helo", id, "", "", 0, 0, "")

Bye(id) ==
    Datagram({"m", "v", "cmd", "id", "ts"}, PN_MAGIC, "bye", id, "", "", 0, 0, "")

\* Datagrams the decoder must reject or ignore.
Malformed ==
    { [HeloFull("B") EXCEPT !.keys = @ \ {"m"}, !.m = ""],
      [HeloFull("B") EXCEPT !.m = "XXXX"],
      [Bye("B") EXCEPT !.m = "XXXX"],
      [HeloFull("B") EXCEPT !.keys = @ \ {"cmd"}, !.cmd = ""],
      [HeloFull("B") EXCEPT !.keys = @ \ {"id"}, !.id = ""],
      [HeloFull("B") EXCEPT !.keys = @ \ {"svc"}, !.svc = ""],
      [HeloFull("B") EXCEPT !.cmd = "ping"] }

Messages ==
    {HeloFull(i) : i \in Ids} \cup {HeloMin(i) : i \in Ids}
        \cup {HeloBare(i) : i \in Ids} \cup {Bye(i) : i \in Ids} \cup Malformed

\* Arguments of pn_announce.
AnnounceArgs ==
    { [id |-> "A", service |-> "sdr_server", ctrl_port |-> 4535,
       data_port |-> 4536, caps |-> "rsp2pro"],
      [id |-> "B", service |-> "waterfall", ctrl_port |-> 0,
       data_port |-> 0, caps |-> NULL] }

Callbacks == {NULL, "on_service_found"}

\* The announce threads: one is created per session.
Threads == 1..MaxSessions

\* The other instances on the network.
Peers == {"C"}

\* No pointer obtained yet.
NoPointer == [slot |-> 0, rec |-> ZeroService]

InitOutcomes == {"ok", "socket_fail", "setsockopt_fail", "bind_fail"}

\* -------------------------------------------------------------- the state

VARIABLES
    initialized,    \* g_discovery.initialized
    sock,           \* g_discovery.sock: "zero", "invalid", "open", "closed"
    announcing,     \* g_discovery.announcing
    my_service,     \* g_discovery.my_service
    listening,      \* g_discovery.listening
    callback,       \* g_discovery.callback
    services,       \* g_discovery.services[]
    last,           \* the last call or datagram handled and what it produced:
                    \* return value, slot written, service type the matched
                    \* record had before (NULL: none matched), callbacks made
    found,          \* per identity: whether an is_bye=false callback fired
                    \* since the start or the last processed departure of it
    announce_running,   \* g_discovery.announce_running
    listen_running,     \* g_discovery.listen_running
    pcCaller,       \* where the caller's thread is
    cont,           \* where the caller goes on after pn_announce_stop
    carg,           \* the arguments of the pn_announce call in progress
    pcAnn,          \* where the announce thread of each session is
                    \* ("none": not created, or joined)
    pcLis,          \* where the listener thread is ("none": no thread)
    lmsg,           \* the datagram the listener thread has received
    net,            \* datagrams broadcast and not yet received or lost
    sent,           \* every broadcast_message call so far: kind, identity,
                    \* session in force, sending thread (0: the caller),
                    \* whether the socket was open
    session,        \* number of announce sessions started
    mutex,          \* g_discovery.services_mutex: "free" or its owner
    lcb,            \* the callback invocation the listener thread is about
                    \* to make (<<>>: none)
    held,           \* the pointer the caller got from its last find call
                    \* (slot, 0 for NULL) and the record read through it then
    peers_up        \* the peers still running

\* The part of the state the atomic specification leaves alone.
conc == <<announce_running, listen_running, pcCaller, cont, carg, pcAnn, pcLis,
          lmsg, net, sent, session, mutex, lcb, held, peers_up>>

vars == <<initialized, sock, announcing, my_service, listening, callback,
          services, last, found, conc>>

NoLast ==
    [op |-> "none", msg |-> NoMsg, arg |-> 0, ret |-> 0, idx |-> 0,
     was |-> NULL, cb |-> <<>>, out |-> <<>>]

\* ------------------------------------------------------ the JSON helpers

\* json_get_string: NULL when the key is not in the text.
json_has(msg, key) == key \in msg.keys

\* json_get_int: 0 when the key is not in the text.
json_get_int(msg, key) ==
    IF key \in msg.keys THEN (IF key = "port" THEN msg.port ELSE msg.data) ELSE 0

\* ---------------------------------------------------- the peer registry

RECURSIVE ScanActiveId(_, _, _)
\* for (i = from; i < PN_MAX_SERVICES; i++) if (active && strcmp(id) == 0) break
ScanActiveId(svcs, id, i) ==
    IF i > PN_MAX_SERVICES THEN 0
    ELSE IF svcs[i].active /\ svcs[i].id = id THEN i
    ELSE ScanActiveId(svcs, id, i + 1)

\* A scan that starts one slot late.
FindActiveByIdSkipFirst(svcs, id) == ScanActiveId(svcs, id, 2)

\* The slot of the active record with this identity, 0 when there is none.
FindActiveById(svcs, id) == ScanActiveId(svcs, id, 1)

RECURSIVE ScanInactive(_, _)
ScanInactive(svcs, i) ==
    IF i > PN_MAX_SERVICES THEN 0
    ELSE IF ~svcs[i].active THEN i
    ELSE ScanInactive(svcs, i + 1)

\* A full registry evicts its last slot.
FirstInactiveEvictLast(svcs) ==
    IF ScanInactive(svcs, 1) = 0 THEN PN_MAX_SERVICES ELSE ScanInactive(svcs, 1)

\* The lowest inactive slot, 0 when every slot is active.
FirstInactive(svcs) == ScanInactive(svcs, 1)

\* The free slot is looked for from the top of the array.
helo_update_last_fit(svcs, id, svc, ip, port, data_port, caps) ==
    LET hit == FindActiveById(svcs, id)
        is_new == hit = 0
        free == {i \in Slots : ~svcs[i].active}
        idx == IF hit # 0 THEN hit
               ELSE IF free = {} THEN 0
               ELSE CHOOSE i \in free : \A j \in free : j <= i
    IN  [idx |-> idx,
         is_new |-> is_new,
         services |->
             IF idx = 0 THEN svcs
             ELSE [svcs EXCEPT ![idx] =
                      [id |-> id, service |-> svc, ip |-> ip, ctrl_port |-> port,
                       data_port |-> data_port, caps |-> caps, active |-> TRUE]]]

\* The registry update of a presence message: the slot written (0: none),
\* whether the identity was not found, and the registry afterwards.
helo_update(svcs, id, svc, ip, port, data_port, caps) ==
    LET hit == FindActiveById(svcs, id)
        is_new == hit = 0
        idx == IF hit = 0 THEN FirstInactive(svcs) ELSE hit
    IN  [idx |-> idx,
         is_new |-> is_new,
         services |->
             IF idx = 0 THEN svcs
             ELSE [svcs EXCEPT ![idx] =
                      [id |-> id, service |-> svc, ip |-> ip, ctrl_port |-> port,
                       data_port |-> data_port, caps |-> caps, active |-> TRUE]]]

\* A departure marks the first active slot inactive, whatever its identity.
bye_update_any(svcs, id) ==
    LET act == {i \in Slots : svcs[i].active}
        idx == IF act = {} THEN 0 ELSE CHOOSE i \in act : \A j \in act : i <= j
    IN  [idx |-> idx,
         svc_copy |-> IF idx = 0 THEN "" ELSE svcs[idx].service,
         ip_copy |-> IF idx = 0 THEN "" ELSE svcs[idx].ip,
         port_copy |-> IF idx = 0 THEN 0 ELSE svcs[idx].ctrl_port,
         services |-> IF idx = 0 THEN svcs ELSE [svcs EXCEPT ![idx].active = FALSE]]

\* The registry update of a departure message: the slot cleared (0: none),
\* the copies taken for the callback, and the registry afterwards.
bye_update(svcs, id) ==
    LET idx == FindActiveById(svcs, id)
    IN  [idx |-> idx,
         svc_copy |-> IF idx = 0 THEN "" ELSE svcs[idx].service,
         ip_copy |-> IF idx = 0 THEN "" ELSE svcs[idx].ip,
         port_copy |-> IF idx = 0 THEN 0 ELSE svcs[idx].ctrl_port,
         services |-> IF idx = 0 THEN svcs ELSE [svcs EXCEPT ![idx].active = FALSE]]

\* One invocation of the user callback.
CallbackArgs(id, service, ip, ctrl_port, data_port, caps, is_bye) ==
    [id |-> id, service |-> service, ip |-> ip, ctrl_port |-> ctrl_port,
     data_port |-> data_port, caps |-> caps, is_bye |-> is_bye]

\* The self test compares the identity with the wrong field.
IsOwnMessageWrongField(id) == announcing /\ id = my_service.service

\* "Ignore our own messages".
IsOwnMessage(id) == announcing /\ id = my_service.id

\* The helo / bye branches of parse_message, entered once the header is
\* decoded and the self test has passed: the return value, the registry
\* afterwards, the callback invocations made, and the slot touched.  garbage
\* is what the caps[] buffer holds when the datagram has no "caps" key.
process_command(msg, sender_ip, garbage) ==
    IF msg.cmd = "helo" THEN
        IF ~json_has(msg, "svc")
        THEN [ret |-> -1, services |-> services, cb |-> <<>>, idx |-> 0]
        ELSE
            LET ip == IF json_has(msg, "ip") THEN msg.ip ELSE sender_ip
                port == json_get_int(msg, "port")
                data_port == json_get_int(msg, "data")
                caps == IF json_has(msg, "caps") THEN msg.caps ELSE garbage
                u == helo_update(services, msg.id, msg.svc, ip, port, data_port, caps)
            IN  [ret |-> 0,
                 services |-> u.services,
                 idx |-> u.idx,
                 cb |-> IF u.is_new /\ callback # NULL
                        THEN <<CallbackArgs(msg.id, msg.svc, ip, port, data_port,
                                            caps, FALSE)>>
                        ELSE <<>>]
    ELSE IF msg.cmd = "bye" THEN
        LET u == bye_update(services, msg.id)
        IN  [ret |-> 0,
             services |-> u.services,
             idx |-> u.idx,
             cb |-> IF callback # NULL /\ u.svc_copy # ""
                    THEN <<CallbackArgs(msg.id, u.svc_copy, u.ip_copy, u.port_copy,
                                        0, "", TRUE)>>
                    ELSE <<>>]
    ELSE [ret |-> 0, services |-> services, cb |-> <<>>, idx |-> 0]

\* The tag is looked up but not compared with PN_MAGIC.
parse_message_any_magic(msg, sender_ip, garbage) ==
    LET reject == [ret |-> -1, services |-> services, cb |-> <<>>, idx |-> 0]
        ignore == [ret |-> 0, services |-> services, cb |-> <<>>, idx |-> 0]
    IN  IF ~json_has(msg, "m") THEN reject
        ELSE IF ~json_has(msg, "cmd") THEN reject
        ELSE IF ~json_has(msg, "id") THEN reject
        ELSE IF IsOwnMessage(msg.id) THEN ignore
        ELSE process_command(msg, sender_ip, garbage)

\* parse_message on one datagram.
parse_message(msg, sender_ip, garbage) ==
    LET reject == [ret |-> -1, services |-> services, cb |-> <<>>, idx |-> 0]
        ignore == [ret |-> 0, services |-> services, cb |-> <<>>, idx |-> 0]
    IN  IF ~json_has(msg, "m") THEN reject
        ELSE IF msg.m # PN_MAGIC THEN reject
        ELSE IF ~json_has(msg, "cmd") THEN reject
        ELSE IF ~json_has(msg, "id") THEN reject
        ELSE IF IsOwnMessage(msg.id) THEN ignore
        ELSE process_command(msg, sender_ip, garbage)

\* Whether parse_message reaches the helo / bye branch for this datagram.
Dispatched(msg, cmd) ==
    /\ {"m", "cmd", "id"} \subseteq msg.keys
    /\ msg.m = PN_MAGIC
    /\ msg.cmd = cmd
    /\ ~IsOwnMessage(msg.id)
    /\ (cmd = "helo" => "svc" \in msg.keys)

\* ------------------------------------------------------------- queries

\* pn_find_service_by_id: the slot the returned pointer refers to, 0 for NULL.
pn_find_service_by_id(svcs, id) == FindActiveById(svcs, id)

RECURSIVE ScanActiveService(_, _, _)
\* for (i = 0; i < PN_MAX_SERVICES; i++) if (active && strcmp(service) == 0)
ScanActiveService(svcs, service_type, i) ==
    IF i > PN_MAX_SERVICES THEN 0
    ELSE IF svcs[i].active /\ svcs[i].service = service_type THEN i
    ELSE ScanActiveService(svcs, service_type, i + 1)

\* The scan does not look at the active flag.
pn_find_service_any(svcs, service_type) ==
    IF \E i \in Slots : svcs[i].service = service_type
    THEN CHOOSE i \in Slots :
             /\ svcs[i].service = service_type
             /\ \A j \in Slots : svcs[j].service = service_type => i <= j
    ELSE 0

\* pn_find_service: the slot the returned pointer refers to, 0 for NULL.
pn_find_service(svcs, service_type) == ScanActiveService(svcs, service_type, 1)

RECURSIVE CountLoop(_, _)
CountLoop(svcs, i) ==
    IF i > PN_MAX_SERVICES THEN 0
    ELSE (IF svcs[i].active THEN 1 ELSE 0) + CountLoop(svcs, i + 1)

pn_get_service_count(svcs) == CountLoop(svcs, 1)

RECURSIVE GetServicesLoop(_, _, _, _)
\* for (i = 0; i < PN_MAX_SERVICES && count < max_count; i++)
GetServicesLoop(svcs, i, out, max_count) ==
    IF i > PN_MAX_SERVICES \/ ~(Len(out) < max_count) THEN out
    ELSE GetServicesLoop(svcs, i + 1,
                         IF svcs[i].active THEN Append(out, svcs[i]) ELSE out,
                         max_count)

RECURSIVE GetServicesLoopOffByOne(_, _, _, _)
GetServicesLoopOffByOne(svcs, i, out, max_count) ==
    IF i > PN_MAX_SERVICES \/ ~(Len(out) <= max_count) THEN out
    ELSE GetServicesLoopOffByOne(svcs, i + 1,
                         IF svcs[i].active THEN Append(out, svcs[i]) ELSE out,
                         max_count)

\* The loop bound is count <= max_count.
pn_get_services_off_by_one(svcs, max_count) ==
    GetServicesLoopOffByOne(svcs, 1, <<>>, max_count)

\* pn_get_services: the entries copied to out[]; the return value is their
\* number.
pn_get_services(svcs, max_count) == GetServicesLoop(svcs, 1, <<>>, max_count)


\* ------------------------------------------------ Spec: atomic handlers

ZeroFound == [i \in Ids |-> FALSE]

NoArgs == [id |-> "", service |-> "", ctrl_port |-> 0, data_port |-> 0, caps |-> NULL]

Init ==
    /\ initialized = FALSE
    /\ sock = "zero"
    /\ announcing = FALSE
    /\ my_service = ZeroService
    /\ listening = FALSE
    /\ callback = NULL
    /\ services = [i \in Slots |-> ZeroService]
    /\ last = NoLast
    /\ found = ZeroFound
    /\ announce_running = FALSE
    /\ listen_running = FALSE
    /\ pcCaller = "idle"
    /\ cont = "idle"
    /\ carg = NoArgs
    /\ pcAnn = [t \in Threads |-> "none"]
    /\ pcLis = "none"
    /\ lmsg = NoMsg
    /\ net = {}
    /\ sent = <<>>
    /\ session = 0
    /\ mutex = "free"
    /\ lcb = <<>>
    /\ held = NoPointer
    /\ peers_up = Peers

\* The socket is not closed when bind fails.
DiscoveryInitNoClose(outcome) ==
    /\ UNCHANGED conc
    /\ IF initialized
       THEN /\ last' = [NoLast EXCEPT !.op = "pn_discovery_init", !.ret = 0]
            /\ UNCHANGED <<initialized, sock, announcing, my_service, listening,
                           callback, services, found>>
       ELSE /\ announcing' = FALSE
            /\ my_service' = ZeroService
            /\ listening' = FALSE
            /\ callback' = NULL
            /\ services' = [i \in Slots |-> ZeroService]
            /\ found' = ZeroFound
            /\ sock' = CASE outcome = "socket_fail" -> "invalid"
                         [] outcome = "setsockopt_fail" -> "closed"
                         [] OTHER -> "open"
            /\ initialized' = (outcome = "ok")
            /\ last' = [NoLast EXCEPT !.op = "pn_discovery_init", !.arg = outcome,
                                      !.ret = IF outcome = "ok" THEN 0 ELSE -1]

\* pn_discovery_init: the three setup failures leave initialized false; the
\* socket is closed again when it was created.  The outcome of the
\* setup is recorded with the return value.
DiscoveryInit(outcome) ==
    /\ UNCHANGED conc
    /\ IF initialized
       THEN /\ last' = [NoLast EXCEPT !.op = "pn_discovery_init", !.ret = 0]
            /\ UNCHANGED <<initialized, sock, announcing, my_service, listening,
                           callback, services, found>>
       ELSE /\ announcing' = FALSE
            /\ my_service' = ZeroService
            /\ listening' = FALSE
            /\ callback' = NULL
            /\ services' = [i \in Slots |-> ZeroService]
            /\ found' = ZeroFound
            /\ sock' = CASE outcome = "socket_fail" -> "invalid"
                         [] outcome \in {"setsockopt_fail", "bind_fail"} -> "closed"
                         [] OTHER -> "open"
            /\ initialized' = (outcome = "ok")
            /\ last' = [NoLast EXCEPT !.op = "pn_discovery_init", !.arg = outcome,
                                      !.ret = IF outcome = "ok" THEN 0 ELSE -1]

\* The test of listening is missing.
ListenNoTest(cb, thread_ok) ==
    /\ UNCHANGED conc
    /\ last' = [NoLast EXCEPT !.op = "pn_listen", !.arg = cb,
                              !.ret = IF initialized /\ thread_ok THEN 0 ELSE -1]
    /\ IF ~initialized
       THEN UNCHANGED <<callback, listening>>
       ELSE /\ callback' = cb
            /\ listening' = thread_ok
    /\ UNCHANGED <<initialized, sock, announcing, my_service, services, found>>

\* pn_listen: a no-op returning 0 when already listening.
Listen(cb, thread_ok) ==
    /\ UNCHANGED conc
    /\ last' = [NoLast EXCEPT !.op = "pn_listen", !.arg = cb,
                              !.ret = IF ~initialized THEN -1
                                      ELSE IF listening THEN 0
                                      ELSE IF thread_ok THEN 0 ELSE -1]
    /\ IF ~initialized \/ listening
       THEN UNCHANGED <<callback, listening>>
       ELSE /\ callback' = cb
            /\ listening' = thread_ok
    /\ UNCHANGED <<initialized, sock, announcing, my_service, services, found>>

\* The descriptor pn_announce stores: caps is copied only when not NULL.
StoreService(a) ==
    [id |-> a.id, service |-> a.service, ip |-> LocalIp,
     ctrl_port |-> a.ctrl_port, data_port |-> a.data_port,
     caps |-> IF a.caps # NULL THEN a.caps ELSE my_service.caps,
     active |-> my_service.active]

\* pn_announce, the whole call: stop a running session, store the
\* descriptor, start the announce thread.
Announce(a, thread_ok) ==
    /\ UNCHANGED conc
    /\ last' = [NoLast EXCEPT !.op = "pn_announce",
                              !.ret = IF initialized /\ thread_ok THEN 0 ELSE -1]
    /\ IF ~initialized
       THEN UNCHANGED <<my_service, announcing>>
       ELSE /\ my_service' = StoreService(a)
            /\ announcing' = thread_ok
    /\ UNCHANGED <<initialized, sock, listening, callback, services, found>>

\* pn_announce_stop, the whole call.
AnnounceStop ==
    /\ UNCHANGED conc
    /\ last' = [NoLast EXCEPT !.op = "pn_announce_stop"]
    /\ announcing' = FALSE
    /\ UNCHANGED <<initialized, sock, my_service, listening, callback, services, found>>

\* pn_discovery_shutdown, the whole call.
Shutdown ==
    /\ UNCHANGED conc
    /\ last' = [NoLast EXCEPT !.op = "pn_discovery_shutdown"]
    /\ IF ~initialized
       THEN UNCHANGED <<initialized, sock, announcing, listening>>
       ELSE /\ announcing' = FALSE
            /\ listening' = FALSE
            /\ sock' = "invalid"
            /\ initialized' = FALSE
    /\ UNCHANGED <<my_service, callback, services, found>>

\* The callback history after one parse_message.
FoundAfter(msg, r) ==
    IF r.cb # <<>> /\ ~r.cb[1].is_bye
    THEN [found EXCEPT ![msg.id] = TRUE]
    ELSE IF Dispatched(msg, "bye") THEN [found EXCEPT ![msg.id] = FALSE]
    ELSE found

\* The service type of the active record a dispatched datagram matches.
MatchedService(msg) ==
    IF (Dispatched(msg, "helo") \/ Dispatched(msg, "bye"))
          /\ \E i \in Slots : services[i].active /\ services[i].id = msg.id
    THEN services[CHOOSE i \in Slots :
                      services[i].active /\ services[i].id = msg.id].service
    ELSE NULL

\* The listener thread receives one datagram and runs parse_message on it.
ParseMessage(msg, sender_ip, garbage) ==
    /\ UNCHANGED conc
    /\ initialized /\ listening
    /\ LET r == parse_message(msg, sender_ip, garbage)
       IN  /\ services' = r.services
           /\ found' = FoundAfter(msg, r)
           /\ last' = [NoLast EXCEPT !.op = "parse_message", !.msg = msg,
                                     !.ret = r.ret, !.idx = r.idx, !.cb = r.cb,
                                     !.was = MatchedService(msg)]
    /\ UNCHANGED <<initialized, sock, announcing, my_service, listening, callback>>

\* The caller asks for a snapshot.
GetServices(max_count) ==
    /\ UNCHANGED conc
    /\ initialized
    /\ LET out == pn_get_services(services, max_count)
       IN  last' = [NoLast EXCEPT !.op = "pn_get_services", !.arg = max_count,
                                  !.ret = Len(out), !.out = out]
    /\ UNCHANGED <<initialized, sock, announcing, my_service, listening, callback,
                   services, found>>

\* The caller asks for the number of active records.
GetServiceCount ==
    /\ UNCHANGED conc
    /\ initialized
    /\ last' = [NoLast EXCEPT !.op = "pn_get_service_count",
                              !.ret = pn_get_service_count(services)]
    /\ UNCHANGED <<initialized, sock, announcing, my_service, listening, callback,
                   services, found>>

MaxCounts == 0..(PN_MAX_SERVICES + 1)

Next ==
    \/ \E o \in InitOutcomes : DiscoveryInit(o)
    \/ Listen("on_service_found", TRUE)
    \/ \E a \in {x \in AnnounceArgs : x.id = "A"} : Announce(a, TRUE)
    \/ AnnounceStop
    \/ \E msg \in Messages, ip \in SenderIps, g \in CapsGarbage :
           ParseMessage(msg, ip, g)
    \/ \E n \in MaxCounts : GetServices(n)
    \/ GetServiceCount

Spec == Init /\ [][Next]_vars

\* ------------------------------------------------- SpecApi: the calls
\* The calls that start and end things, each one atomic, with every outcome
\* of the socket setup and of the thread creation.
NextApi ==
    \/ \E o \in InitOutcomes : DiscoveryInit(o)
    \/ \E cb \in Callbacks, thread_ok \in BOOLEAN : Listen(cb, thread_ok)
    \/ \E a \in AnnounceArgs, thread_ok \in BOOLEAN : Announce(a, thread_ok)
    \/ AnnounceStop
    \/ Shutdown

SpecApi == Init /\ [][NextApi]_vars

\* ------------------------------------------------ SpecFind: the lookups

\* The service types the caller asks for.
ServiceTypes == {"sdr_server", "waterfall"}

\* What the caller reads through a pointer to slot i (0: NULL).
PointerTo(i) == [slot |-> i, rec |-> IF i = 0 THEN ZeroService ELSE services[i]]

\* The caller looks a service type up and keeps the pointer returned.
FindService(service_type) ==
    /\ initialized
    /\ LET i == pn_find_service(services, service_type)
       IN  /\ held' = PointerTo(i)
           /\ last' = [NoLast EXCEPT !.op = "pn_find_service", !.arg = service_type,
                                     !.idx = i]
    /\ UNCHANGED <<initialized, sock, announcing, my_service, listening, callback,
                   services, found, announce_running, listen_running, pcCaller,
                   cont, carg, pcAnn, pcLis, lmsg, net, sent, session, mutex, lcb,
                   peers_up>>

\* The caller looks an identity up and keeps the pointer returned.
FindServiceById(id) ==
    /\ initialized
    /\ LET i == pn_find_service_by_id(services, id)
       IN  /\ held' = PointerTo(i)
           /\ last' = [NoLast EXCEPT !.op = "pn_find_service_by_id", !.arg = id,
                                     !.idx = i]
    /\ UNCHANGED <<initialized, sock, announcing, my_service, listening, callback,
                   services, found, announce_running, listen_running, pcCaller,
                   cont, carg, pcAnn, pcLis, lmsg, net, sent, session, mutex, lcb,
                   peers_up>>

\* The peers whose datagrams are received between the lookups.
FindIds == {"B", "C"}

FindMessages ==
    {HeloFull(i) : i \in FindIds} \cup {HeloMin(i) : i \in FindIds}
        \cup {Bye(i) : i \in FindIds}

NextFind ==
    \/ DiscoveryInit("ok")
    \/ Listen("on_service_found", TRUE)
    \/ \E msg \in FindMessages, ip \in SenderIps, g \in CapsGarbage :
           ParseMessage(msg, ip, g)
    \/ \E t \in ServiceTypes : FindService(t)
    \/ \E id \in FindIds : FindServiceById(id)

SpecFind == Init /\ [][NextFind]_vars

\* ------------------------------------------- SpecConc: interleaved threads
\* The caller, the announce threads and the listener thread take one step
\* at a time.  Where the POSIX build joins a thread (pthread_join), the
\* Windows build waits for it for at most 5000 ms (WaitForSingleObject) and
\* goes on when the wait expires.

\* build_helo_message on the stored descriptor: the data port is written
\* only when positive, the capabilities only when not empty.
build_helo_message ==
    Datagram({"m", "v", "cmd", "id", "svc", "ip", "port", "ts"}
                 \cup (IF my_service.data_port > 0 THEN {"data"} ELSE {})
                 \cup (IF my_service.caps # "" THEN {"caps"} ELSE {}),
             PN_MAGIC, "helo", my_service.id, my_service.service, LocalIp,
             my_service.ctrl_port,
             IF my_service.data_port > 0 THEN my_service.data_port ELSE 0,
             my_service.caps)

\* build_bye_message on the stored descriptor.
build_bye_message ==
    Datagram({"m", "v", "cmd", "id", "ts"}, PN_MAGIC, "bye", my_service.id,
             "", "", 0, 0, "")

\* Whether the receive buffer of the own socket takes one more datagram.
BufferHasRoom == sock = "open" /\ Cardinality(net) < MaxNet

\* broadcast_message called by thread t (0: the caller): on an open socket
\* the datagram goes out, and comes back to the own socket, which is bound
\* to the discovery port (unless its buffer is full); on a closed socket
\* sendto fails.
Broadcast(msg, t) ==
    /\ net' = IF BufferHasRoom THEN net \cup {msg} ELSE net
    /\ sent' = Append(sent, [kind |-> msg.cmd, id |-> msg.id, session |-> session,
                             thread |-> t, open |-> (sock = "open")])

\* The presence datagram of another instance.
PeerMessages == {HeloFull(p) : p \in Peers}

\* The caller: pn_discovery_init succeeds.
CallInit ==
    /\ pcCaller = "idle" /\ ~initialized /\ sock = "zero"
    /\ initialized' = TRUE
    /\ sock' = "open"
    /\ UNCHANGED <<announcing, my_service, listening, callback, services, last,
                   found, announce_running, listen_running, pcCaller, cont, carg,
                   pcAnn, pcLis, lmsg, net, sent, session, mutex, lcb, held,
                   peers_up>>

\* The caller calls pn_listen(cb, userdata).
CallListen(cb) ==
    /\ pcCaller = "idle"
    /\ carg' = [callback |-> cb]
    /\ pcCaller' = "listen"
    /\ UNCHANGED <<initialized, sock, announcing, my_service, listening, callback,
                   services, last, found, announce_running, listen_running, cont,
                   pcAnn, pcLis, lmsg, net, sent, session, mutex, lcb, held,
                   peers_up>>

\* pn_listen: -1 when not initialised, 0 and nothing else when already
\* listening; otherwise the callback is stored and the listener thread
\* started.
ListenEntry ==
    /\ pcCaller = "listen"
    /\ IF ~initialized \/ listening
       THEN UNCHANGED <<callback, listen_running, listening, pcLis>>
       ELSE /\ callback' = carg.callback
            /\ listen_running' = TRUE
            /\ listening' = TRUE
            /\ pcLis' = "L_loop"
    /\ last' = [NoLast EXCEPT !.op = "pn_listen",
                              !.ret = IF ~initialized THEN -1 ELSE 0]
    /\ carg' = NoArgs
    /\ pcCaller' = "idle"
    /\ UNCHANGED <<initialized, sock, announcing, my_service, services,
                   found, announce_running, cont, pcAnn, lmsg, net, sent, session,
                   mutex, lcb, held, peers_up>>

\* The caller calls pn_announce(id, service, ctrl_port, data_port, caps).
CallAnnounce(a) ==
    /\ pcCaller = "idle" /\ session < MaxSessions
    /\ carg' = a
    /\ pcCaller' = "announce"
    /\ UNCHANGED <<initialized, sock, announcing, my_service, listening, callback,
                   services, last, found, announce_running, listen_running, cont,
                   pcAnn, pcLis, lmsg, net, sent, session, mutex, lcb, held,
                   peers_up>>

\* The test of initialized is missing.
AnnounceEntryNoTest ==
    /\ pcCaller = "announce"
    /\ pcCaller' = IF announcing THEN "stop_check" ELSE "store"
    /\ cont' = IF announcing THEN "store" ELSE cont
    /\ UNCHANGED <<initialized, sock, announcing, my_service, listening, callback,
                   services, last, found, announce_running, listen_running, carg,
                   pcAnn, pcLis, lmsg, net, sent, session, mutex, lcb, held,
                   peers_up>>

\* pn_announce: -1 when not initialised; a running session is stopped
\* first.
AnnounceEntry ==
    /\ pcCaller = "announce"
    /\ IF ~initialized
       THEN /\ pcCaller' = "idle"
            /\ carg' = NoArgs
            /\ cont' = cont
            /\ last' = [NoLast EXCEPT !.op = "pn_announce", !.ret = -1]
       ELSE /\ pcCaller' = IF announcing THEN "stop_check" ELSE "store"
            /\ cont' = IF announcing THEN "store" ELSE cont
            /\ carg' = carg
            /\ last' = last
    /\ UNCHANGED <<initialized, sock, announcing, my_service, listening, callback,
                   services, found, announce_running, listen_running, pcAnn,
                   pcLis, lmsg, net, sent, session, mutex, lcb, held, peers_up>>

\* The caller calls pn_announce_stop().
CallAnnounceStop ==
    /\ pcCaller = "idle"
    /\ cont' = "idle"
    /\ pcCaller' = "stop_check"
    /\ UNCHANGED <<initialized, sock, announcing, my_service, listening, callback,
                   services, last, found, announce_running, listen_running, carg,
                   pcAnn, pcLis, lmsg, net, sent, session, mutex, lcb, held,
                   peers_up>>

\* The test of announcing is missing.
StopCheckNoTest ==
    /\ pcCaller = "stop_check"
    /\ pcCaller' = "stop_bye"
    /\ UNCHANGED <<initialized, sock, announcing, my_service, listening, callback,
                   services, last, found, announce_running, listen_running, cont,
                   carg, pcAnn, pcLis, lmsg, net, sent, session, mutex, lcb, held,
                   peers_up>>

\* pn_announce_stop: if (!announcing) return.
StopCheck ==
    /\ pcCaller = "stop_check"
    /\ IF announcing
       THEN /\ pcCaller' = "stop_bye"
            /\ cont' = cont
       ELSE /\ pcCaller' = cont
            /\ cont' = "idle"
    /\ UNCHANGED <<initialized, sock, announcing, my_service, listening, callback,
                   services, last, found, announce_running, listen_running, carg,
                   pcAnn, pcLis, lmsg, net, sent, session, mutex, lcb, held,
                   peers_up>>

\* pn_announce_stop: "Send bye message".
StopBye ==
    /\ pcCaller = "stop_bye"
    /\ Broadcast(build_bye_message, 0)
    /\ pcCaller' = "stop_flag"
    /\ UNCHANGED <<initialized, sock, announcing, my_service, listening, callback,
                   services, last, found, announce_running, listen_running, cont,
                   carg, pcAnn, pcLis, lmsg, session, mutex, lcb, held, peers_up>>

\* pn_announce_stop: announce_running = false.
StopFlag ==
    /\ pcCaller = "stop_flag"
    /\ announce_running' = FALSE
    /\ pcCaller' = "stop_join"
    /\ UNCHANGED <<initialized, sock, announcing, my_service, listening, callback,
                   services, last, found, listen_running, cont, carg, pcAnn, pcLis,
                   lmsg, net, sent, session, mutex, lcb, held, peers_up>>

\* pn_announce_stop: the wait for the announce thread ends because the
\* thread has exited; then announcing = false.
StopJoin ==
    /\ pcCaller = "stop_join"
    /\ pcAnn[session] = "done"
    /\ pcAnn' = [pcAnn EXCEPT ![session] = "none"]
    /\ announcing' = FALSE
    /\ pcCaller' = cont
    /\ cont' = "idle"
    /\ UNCHANGED <<initialized, sock, my_service, listening, callback, services,
                   last, found, announce_running, listen_running, carg, pcLis,
                   lmsg, net, sent, session, mutex, lcb, held, peers_up>>

\* pn_announce_stop, Windows build: the 5000 ms wait expires while the
\* thread is still running; the handle is closed and the call goes on.
StopWaitTimeout ==
    /\ pcCaller = "stop_join"
    /\ pcAnn[session] # "done"
    /\ announcing' = FALSE
    /\ pcCaller' = cont
    /\ cont' = "idle"
    /\ UNCHANGED <<initialized, sock, my_service, listening, callback, services,
                   last, found, announce_running, listen_running, carg, pcAnn,
                   pcLis, lmsg, net, sent, session, mutex, lcb, held, peers_up>>

\* pn_announce: store the descriptor, set the flags, start the thread.
AnnounceStore ==
    /\ pcCaller = "store"
    /\ my_service' = StoreService(carg)
    /\ announce_running' = TRUE
    /\ announcing' = TRUE
    /\ session' = session + 1
    /\ pcAnn' = [pcAnn EXCEPT ![session + 1] = "T_helo0"]
    /\ last' = [NoLast EXCEPT !.op = "pn_announce", !.ret = 0]
    /\ carg' = NoArgs
    /\ cont' = "idle"
    /\ pcCaller' = "idle"
    /\ UNCHANGED <<initialized, sock, listening, callback, services, found,
                   listen_running, pcLis, lmsg, net, sent, mutex, lcb, held,
                   peers_up>>

\* The caller calls pn_discovery_shutdown().
CallShutdown ==
    /\ pcCaller = "idle"
    /\ pcCaller' = "shutdown"
    /\ UNCHANGED <<initialized, sock, announcing, my_service, listening, callback,
                   services, last, found, announce_running, listen_running, cont,
                   carg, pcAnn, pcLis, lmsg, net, sent, session, mutex, lcb, held,
                   peers_up>>

\* pn_discovery_shutdown: return when not initialised; "Stop announcing".
ShutdownEntry ==
    /\ pcCaller = "shutdown"
    /\ IF ~initialized
       THEN /\ pcCaller' = "idle"
            /\ cont' = cont
       ELSE /\ pcCaller' = IF announcing THEN "stop_check" ELSE "sd_listen"
            /\ cont' = IF announcing THEN "sd_listen" ELSE cont
    /\ UNCHANGED <<initialized, sock, announcing, my_service, listening, callback,
                   services, last, found, announce_running, listen_running, carg,
                   pcAnn, pcLis, lmsg, net, sent, session, mutex, lcb, held,
                   peers_up>>

\* pn_discovery_shutdown: "Stop listening", listen_running = false.
ShutdownListen ==
    /\ pcCaller = "sd_listen"
    /\ IF listening
       THEN /\ listen_running' = FALSE
            /\ pcCaller' = "sd_join"
       ELSE /\ listen_running' = listen_running
            /\ pcCaller' = "sd_close"
    /\ UNCHANGED <<initialized, sock, announcing, my_service, listening, callback,
                   services, last, found, announce_running, cont, carg, pcAnn,
                   pcLis, lmsg, net, sent, session, mutex, lcb, held, peers_up>>

\* pn_discovery_shutdown: the wait for the listener thread ends because
\* the thread has exited; then listening = false.
ShutdownJoin ==
    /\ pcCaller = "sd_join"
    /\ pcLis = "done"
    /\ pcLis' = "none"
    /\ listening' = FALSE
    /\ pcCaller' = "sd_close"
    /\ UNCHANGED <<initialized, sock, announcing, my_service, callback, services,
                   last, found, announce_running, listen_running, cont, carg,
                   pcAnn, lmsg, net, sent, session, mutex, lcb, held, peers_up>>

\* pn_discovery_shutdown, Windows build: the 5000 ms wait expires while the
\* listener thread is still running.
ShutdownWaitTimeout ==
    /\ pcCaller = "sd_join"
    /\ pcLis # "done"
    /\ listening' = FALSE
    /\ pcCaller' = "sd_close"
    /\ UNCHANGED <<initialized, sock, announcing, my_service, callback, services,
                   last, found, announce_running, listen_running, cont, carg,
                   pcAnn, pcLis, lmsg, net, sent, session, mutex, lcb, held,
                   peers_up>>

\* pn_discovery_shutdown: close the socket, destroy the mutex,
\* initialized = false.
ShutdownClose ==
    /\ pcCaller = "sd_close"
    /\ sock' = IF sock # "invalid" THEN "invalid" ELSE sock
    /\ mutex' = "destroyed"
    /\ initialized' = FALSE
    /\ pcCaller' = "idle"
    /\ UNCHANGED <<announcing, my_service, listening, callback, services, last,
                   found, announce_running, listen_running, cont, carg, pcAnn,
                   pcLis, lmsg, net, sent, session, lcb, held, peers_up>>

\* The announce thread: "Initial announcement".
ThreadHelo0(t) ==
    /\ pcAnn[t] = "T_helo0"
    /\ Broadcast(build_helo_message, t)
    /\ pcAnn' = [pcAnn EXCEPT ![t] = "T_loop"]
    /\ UNCHANGED <<initialized, sock, announcing, my_service, listening, callback,
                   services, last, found, announce_running, listen_running,
                   pcCaller, cont, carg, pcLis, lmsg, session, mutex, lcb, held,
                   peers_up>>

\* The announce thread: while (announce_running).
ThreadLoop(t) ==
    /\ pcAnn[t] = "T_loop"
    /\ pcAnn' = [pcAnn EXCEPT ![t] = IF announce_running THEN "T_for0" ELSE "done"]
    /\ UNCHANGED <<initialized, sock, announcing, my_service, listening, callback,
                   services, last, found, announce_running, listen_running,
                   pcCaller, cont, carg, pcLis, lmsg, net, sent, session, mutex,
                   lcb, held, peers_up>>

\* The announce thread: for (i = 0; i < interval && announce_running; i++).
\* The interval is at least one second, so the first test can only fail on
\* the flag; later the interval may have elapsed ("T_after") or the flag
\* may have cut the sleep short ("T_after_cut").
ThreadFor(t) ==
    /\ pcAnn[t] \in {"T_for0", "T_for"}
    /\ IF ~announce_running
       THEN pcAnn' = [pcAnn EXCEPT ![t] = "T_after_cut"]
       ELSE \/ pcAnn' = [pcAnn EXCEPT ![t] = "T_slice"]
            \/ /\ pcAnn[t] = "T_for"
               /\ Len(sent) < MaxSent
               /\ pcAnn' = [pcAnn EXCEPT ![t] = "T_after"]
    /\ UNCHANGED <<initialized, sock, announcing, my_service, listening, callback,
                   services, last, found, announce_running, listen_running,
                   pcCaller, cont, carg, pcLis, lmsg, net, sent, session, mutex,
                   lcb, held, peers_up>>

\* The announce thread: sleep_ms(1000) returns.
ThreadSlice(t) ==
    /\ pcAnn[t] = "T_slice"
    /\ pcAnn' = [pcAnn EXCEPT ![t] = "T_for"]
    /\ UNCHANGED <<initialized, sock, announcing, my_service, listening, callback,
                   services, last, found, announce_running, listen_running,
                   pcCaller, cont, carg, pcLis, lmsg, net, sent, session, mutex,
                   lcb, held, peers_up>>

\* The announce thread: if (!announce_running) break.
ThreadAfter(t) ==
    /\ pcAnn[t] \in {"T_after", "T_after_cut"}
    /\ pcAnn' = [pcAnn EXCEPT ![t] =
                    IF ~announce_running THEN "done"
                    ELSE IF pcAnn[t] = "T_after" THEN "T_build" ELSE "T_build_cut"]
    /\ UNCHANGED <<initialized, sock, announcing, my_service, listening, callback,
                   services, last, found, announce_running, listen_running,
                   pcCaller, cont, carg, pcLis, lmsg, net, sent, session, mutex,
                   lcb, held, peers_up>>

\* The announce thread: the periodic presence message.
ThreadBuild(t) ==
    /\ pcAnn[t] \in {"T_build", "T_build_cut"}
    /\ Broadcast(build_helo_message, t)
    /\ pcAnn' = [pcAnn EXCEPT ![t] = "T_loop"]
    /\ UNCHANGED <<initialized, sock, announcing, my_service, listening, callback,
                   services, last, found, announce_running, listen_running,
                   pcCaller, cont, carg, pcLis, lmsg, session, mutex, lcb, held,
                   peers_up>>

\* The listener thread: while (listen_running).
ListenLoop ==
    /\ pcLis = "L_loop"
    /\ pcLis' = IF listen_running THEN "L_recvfrom" ELSE "done"
    /\ UNCHANGED <<initialized, sock, announcing, my_service, listening, callback,
                   services, last, found, announce_running, listen_running,
                   pcCaller, cont, carg, pcAnn, lmsg, net, sent, session, mutex,
                   lcb, held, peers_up>>

\* The listener thread: recvfrom returns a datagram.
ListenRecv ==
    /\ pcLis = "L_recvfrom"
    /\ sock = "open"
    /\ \E m \in net :
          /\ lmsg' = m
          /\ net' = net \ {m}
    /\ pcLis' = "L_parse"
    /\ UNCHANGED <<initialized, sock, announcing, my_service, listening, callback,
                   services, last, found, announce_running, listen_running,
                   pcCaller, cont, carg, pcAnn, sent, session, mutex, lcb, held,
                   peers_up>>

\* The listener thread: recvfrom returns nothing, after the one second
\* receive timeout or with an error.
ListenTimeout ==
    /\ pcLis = "L_recvfrom"
    /\ pcLis' = "L_loop"
    /\ UNCHANGED <<initialized, sock, announcing, my_service, listening, callback,
                   services, last, found, announce_running, listen_running,
                   pcCaller, cont, carg, pcAnn, lmsg, net, sent, session, mutex,
                   lcb, held, peers_up>>

\* The listener thread, parse_message: the header is decoded and the
\* identity compared with the own one; no lock is held.
ListenParse ==
    /\ pcLis = "L_parse"
    /\ IF Dispatched(lmsg, "helo") \/ Dispatched(lmsg, "bye")
       THEN /\ pcLis' = "L_lock"
            /\ lmsg' = lmsg
       ELSE /\ pcLis' = "L_loop"
            /\ lmsg' = NoMsg
    /\ UNCHANGED <<initialized, sock, announcing, my_service, listening, callback,
                   services, last, found, announce_running, listen_running,
                   pcCaller, cont, carg, pcAnn, net, sent, session, mutex, lcb,
                   held, peers_up>>

\* The listener thread, parse_message: mutex_lock.  Locking a mutex that
\* pn_discovery_shutdown has destroyed is undefined: the thread may go on
\* or may stop for good.
ListenLock ==
    /\ pcLis = "L_lock"
    /\ \/ /\ mutex = "free"
          /\ mutex' = "listener"
          /\ pcLis' = "L_locked"
       \/ /\ mutex = "destroyed"
          /\ mutex' = mutex
          /\ pcLis' \in {"L_locked", "dead"}
    /\ UNCHANGED <<initialized, sock, announcing, my_service, listening, callback,
                   services, last, found, announce_running, listen_running,
                   pcCaller, cont, carg, pcAnn, lmsg, net, sent, session, lcb,
                   held, peers_up>>

\* The effect is skipped.
mutex_unlock_skipped(m) == m

\* mutex_unlock.
mutex_unlock(m) == IF m = "destroyed" THEN m ELSE "free"

\* The listener thread, parse_message: the registry update, up to
\* mutex_unlock.
ListenUpdate(sender_ip, garbage) ==
    /\ pcLis = "L_locked"
    /\ LET r == process_command(lmsg, sender_ip, garbage)
       IN  /\ services' = r.services
           /\ lcb' = r.cb
           /\ pcLis' = IF r.cb # <<>> THEN "L_callback" ELSE "L_loop"
           /\ lmsg' = IF r.cb # <<>> THEN lmsg ELSE NoMsg
    /\ found' = IF lmsg.cmd = "bye" THEN [found EXCEPT ![lmsg.id] = FALSE] ELSE found
    /\ mutex' = mutex_unlock(mutex)
    /\ UNCHANGED <<initialized, sock, announcing, my_service, listening, callback,
                   last, announce_running, listen_running, pcCaller, cont, carg,
                   pcAnn, net, sent, session, held, peers_up>>

\* The listener thread, parse_message: the user callback runs.
ListenCallback ==
    /\ pcLis = "L_callback"
    /\ found' = IF lcb[1].is_bye THEN found ELSE [found EXCEPT ![lcb[1].id] = TRUE]
    /\ lcb' = <<>>
    /\ lmsg' = NoMsg
    /\ pcLis' = "L_loop"
    /\ UNCHANGED <<initialized, sock, announcing, my_service, listening, callback,
                   services, last, announce_running, listen_running, pcCaller,
                   cont, carg, pcAnn, net, sent, session, mutex, held, peers_up>>

\* Another instance broadcasts its presence.
PeerSend ==
    /\ BufferHasRoom
    /\ \E m \in PeerMessages \ net :
          /\ m.id \in peers_up
          /\ net' = net \cup {m}
    /\ UNCHANGED <<initialized, sock, announcing, my_service, listening, callback,
                   services, last, found, announce_running, listen_running,
                   pcCaller, cont, carg, pcAnn, pcLis, lmsg, sent, session, mutex,
                   lcb, held, peers_up>>

\* The calls the caller makes: the first session announces "A", the next
\* "B", and so on in turn; the first pn_listen passes a callback, a repeated
\* pn_listen any.
SessionArgs ==
    {a \in AnnounceArgs : a.id = (IF session % 2 = 0 THEN "A" ELSE "B")}

ListenArgs == IF listening THEN Callbacks ELSE {"on_service_found"}

\* The threads at work: the caller announces, stops and listens, the
\* announce thread broadcasts, the listener thread receives; every wait for
\* a thread ends with the thread's exit.
NextConc ==
    \/ CallInit
    \/ \E cb \in ListenArgs : CallListen(cb)
    \/ ListenEntry
    \/ \E a \in SessionArgs : CallAnnounce(a)
    \/ AnnounceEntry
    \/ CallAnnounceStop
    \/ StopCheck
    \/ StopBye
    \/ StopFlag
    \/ StopJoin
    \/ AnnounceStore
    \/ \E t \in Threads :
          \/ ThreadHelo0(t)
          \/ ThreadLoop(t)
          \/ ThreadFor(t)
          \/ ThreadSlice(t)
          \/ ThreadAfter(t)
          \/ ThreadBuild(t)
    \/ ListenLoop
    \/ ListenRecv
    \/ ListenTimeout
    \/ ListenParse
    \/ ListenLock
    \/ \E ip \in SenderIps, g \in CapsGarbage : ListenUpdate(ip, g)
    \/ ListenCallback
    \/ PeerSend

SpecConc == Init /\ [][NextConc]_vars

\* ------------------------------------------- SpecLife: start and shutdown
\* The life cycle of the threads: sessions are started, stopped and
\* replaced, the instance is shut down, and a wait for a thread may also
\* end by its timeout (Windows build).  The listener thread runs its loop
\* without a datagram being delivered to it.
NextLife ==
    \/ CallInit
    \/ \E cb \in ListenArgs : CallListen(cb)
    \/ ListenEntry
    \/ \E a \in SessionArgs : CallAnnounce(a)
    \/ AnnounceEntry
    \/ CallAnnounceStop
    \/ StopCheck
    \/ StopBye
    \/ StopFlag
    \/ StopJoin
    \/ StopWaitTimeout
    \/ AnnounceStore
    \/ CallShutdown
    \/ ShutdownEntry
    \/ ShutdownListen
    \/ ShutdownJoin
    \/ ShutdownWaitTimeout
    \/ ShutdownClose
    \/ \E t \in Threads :
          \/ ThreadHelo0(t)
          \/ ThreadLoop(t)
          \/ ThreadFor(t)
          \/ ThreadSlice(t)
          \/ ThreadAfter(t)
          \/ ThreadBuild(t)
    \/ ListenLoop
    \/ ListenTimeout

SpecLife == Init /\ [][NextLife]_vars

\* ------------------------------------------- SpecStop: stopping the threads
\* The life cycle of SpecLife with every thread scheduled fairly: a thread
\* that can take a step takes one in the end, and a call that has been
\* entered goes on to its return.  What the caller calls next, and whether
\* it calls anything, stays free.

\* The steps of a call already entered.
CallerStep ==
    \/ ListenEntry
    \/ AnnounceEntry
    \/ StopCheck
    \/ StopBye
    \/ StopFlag
    \/ StopJoin
    \/ StopWaitTimeout
    \/ AnnounceStore
    \/ ShutdownEntry
    \/ ShutdownListen
    \/ ShutdownJoin
    \/ ShutdownWaitTimeout
    \/ ShutdownClose

\* The steps of the announce thread of session t.
AnnounceThreadStep(t) ==
    \/ ThreadHelo0(t)
    \/ ThreadLoop(t)
    \/ ThreadFor(t)
    \/ ThreadSlice(t)
    \/ ThreadAfter(t)
    \/ ThreadBuild(t)

\* The steps of the listener thread when no datagram arrives.
ListenThreadStep ==
    \/ ListenLoop
    \/ ListenTimeout

SpecStop ==
    /\ Init
    /\ [][NextLife]_vars
    /\ WF_vars(CallerStep)
    /\ \A t \in Threads : WF_vars(AnnounceThreadStep(t))
    /\ WF_vars(ListenThreadStep)

\* ------------------------------------------- SpecInterval: the sleep counted
\* One announce session with the seconds of its sleep counted: the thread
\* draws its interval, sleeps it in slices of one second (sleep_ms(1000)),
\* and broadcasts; the caller may stop the session at any moment.  The
\* value get_random_interval returned is kept in last.ret, the loop index i
\* in last.idx, and the number of slices slept before the latest periodic
\* presence message in last.out.

PN_ANNOUNCE_MIN_SEC == 30

PN_ANNOUNCE_MAX_SEC == 60

\* The largest value rand() returns.
RandMax == 40

\* The modulus is the upper bound, not the width of the range.
get_random_interval_mod_max(r) == PN_ANNOUNCE_MIN_SEC + (r % (PN_ANNOUNCE_MAX_SEC + 1))

\* get_random_interval, r being what rand() returned.
get_random_interval(r) ==
    LET range == PN_ANNOUNCE_MAX_SEC - PN_ANNOUNCE_MIN_SEC
    IN  PN_ANNOUNCE_MIN_SEC + (r % (range + 1))

\* The state after pn_discovery_init, pn_announce of the first descriptor
\* and the initial announcement of the thread.
InitInterval ==
    /\ initialized = TRUE
    /\ sock = "open"
    /\ announcing = TRUE
    /\ my_service = [id |-> "A", service |-> "sdr_server", ip |-> LocalIp,
                     ctrl_port |-> 4535, data_port |-> 4536, caps |-> "rsp2pro",
                     active |-> FALSE]
    /\ listening = FALSE
    /\ callback = NULL
    /\ services = [i \in Slots |-> ZeroService]
    /\ last = [NoLast EXCEPT !.op = "pn_announce"]
    /\ found = ZeroFound
    /\ announce_running = TRUE
    /\ listen_running = FALSE
    /\ pcCaller = "idle"
    /\ cont = "idle"
    /\ carg = NoArgs
    /\ pcAnn = [t \in Threads |-> IF t = 1 THEN "T_loop" ELSE "none"]
    /\ pcLis = "none"
    /\ lmsg = NoMsg
    /\ net = {HeloFull("A")}
    /\ sent = <<[kind |-> "helo", id |-> "A", session |-> 1, thread |-> 1,
                 open |-> TRUE]>>
    /\ session = 1
    /\ mutex = "free"
    /\ lcb = <<>>
    /\ held = NoPointer
    /\ peers_up = Peers

\* while (announce_running) { int interval = get_random_interval();
TimedLoop(r) ==
    /\ pcAnn[1] = "T_loop"
    /\ IF ~announce_running
       THEN /\ pcAnn' = [pcAnn EXCEPT ![1] = "done"]
            /\ last' = last
       ELSE /\ Len(sent) < MaxSent
            /\ pcAnn' = [pcAnn EXCEPT ![1] = "T_for"]
            /\ last' = [NoLast EXCEPT !.op = "get_random_interval",
                                      !.ret = get_random_interval(r),
                                      !.out = last.out]
    /\ UNCHANGED <<initialized, sock, announcing, my_service, listening, callback,
                   services, found, announce_running, listen_running, pcCaller,
                   cont, carg, pcLis, lmsg, net, sent, session, mutex, lcb, held,
                   peers_up>>

\* for (i = 0; i < interval && announce_running; i++)
TimedFor ==
    /\ pcAnn[1] = "T_for"
    /\ pcAnn' = [pcAnn EXCEPT ![1] = IF last.idx < last.ret /\ announce_running
                                     THEN "T_slice" ELSE "T_after"]
    /\ UNCHANGED <<initialized, sock, announcing, my_service, listening, callback,
                   services, last, found, announce_running, listen_running,
                   pcCaller, cont, carg, pcLis, lmsg, net, sent, session, mutex,
                   lcb, held, peers_up>>

\* sleep_ms(1000) returns; i++.
TimedSlice ==
    /\ pcAnn[1] = "T_slice"
    /\ last' = [last EXCEPT !.idx = @ + 1]
    /\ pcAnn' = [pcAnn EXCEPT ![1] = "T_for"]
    /\ UNCHANGED <<initialized, sock, announcing, my_service, listening, callback,
                   services, found, announce_running, listen_running, pcCaller,
                   cont, carg, pcLis, lmsg, net, sent, session, mutex, lcb, held,
                   peers_up>>

\* if (!announce_running) break.
TimedAfter ==
    /\ pcAnn[1] = "T_after"
    /\ pcAnn' = [pcAnn EXCEPT ![1] = IF announce_running THEN "T_build" ELSE "done"]
    /\ UNCHANGED <<initialized, sock, announcing, my_service, listening, callback,
                   services, last, found, announce_running, listen_running,
                   pcCaller, cont, carg, pcLis, lmsg, net, sent, session, mutex,
                   lcb, held, peers_up>>

\* The periodic presence message.
TimedBuild ==
    /\ pcAnn[1] = "T_build"
    /\ Broadcast(build_helo_message, 1)
    /\ last' = [last EXCEPT !.out = <<last.idx>>]
    /\ pcAnn' = [pcAnn EXCEPT ![1] = "T_loop"]
    /\ UNCHANGED <<initialized, sock, announcing, my_service, listening, callback,
                   services, found, announce_running, listen_running, pcCaller,
                   cont, carg, pcLis, lmsg, session, mutex, lcb, held, peers_up>>

NextInterval ==
    \/ \E r \in 0..RandMax : TimedLoop(r)
    \/ TimedFor
    \/ TimedSlice
    \/ TimedAfter
    \/ TimedBuild
    \/ CallAnnounceStop
    \/ StopCheck
    \/ StopBye
    \/ StopFlag
    \/ StopJoin

SpecInterval == InitInterval /\ [][NextInterval]_vars

\* ------------------------------------------- SpecLive: a peer falls silent

\* A peer stops without a departure message.
PeerVanish(p) ==
    /\ p \in peers_up
    /\ peers_up' = peers_up \ {p}
    /\ UNCHANGED <<initialized, sock, announcing, my_service, listening, callback,
                   services, last, found, announce_running, listen_running,
                   pcCaller, cont, carg, pcAnn, pcLis, lmsg, net, sent, session,
                   mutex, lcb, held>>

\* One step of the listener thread: time passes with its receive timeouts.
ListenerStep ==
    \/ ListenLoop
    \/ ListenRecv
    \/ ListenTimeout
    \/ ListenParse
    \/ ListenLock
    \/ \E ip \in SenderIps, g \in CapsGarbage : ListenUpdate(ip, g)
    \/ ListenCallback

NextLive ==
    \/ CallInit
    \/ \E cb \in ListenArgs : CallListen(cb)
    \/ ListenEntry
    \/ ListenLoop
    \/ ListenRecv
    \/ ListenTimeout
    \/ ListenParse
    \/ ListenLock
    \/ \E ip \in SenderIps, g \in CapsGarbage : ListenUpdate(ip, g)
    \/ ListenCallback
    \/ PeerSend
    \/ \E p \in Peers : PeerVanish(p)

\* The listener thread keeps running.
SpecLive == Init /\ [][NextLive]_vars /\ WF_vars(ListenerStep)

\* ------------------------------------------------ SpecCodec: the wire text
\* The encoder and the decoder on the text of a datagram.  Here a string is
\* spelled out, one character per element, so that snprintf, strstr, strchr
\* and atoi work on it as they do in the code.  The fields of the self
\* descriptor stay below PN_MAX_ID_LEN, PN_MAX_SERVICE_LEN, PN_MAX_IP_LEN and
\* PN_MAX_CAPS_LEN characters, and a presence message of such fields is
\* shorter than PN_MAX_MSG_LEN, so that json_add_string / json_add_int never
\* run out of buffer.

PN_MAX_ID_LEN == 64

PN_MAX_SERVICE_LEN == 32

PN_MAX_IP_LEN == 64

PN_MAX_CAPS_LEN == 128

PN_VERSION == 1

\* The double quote.
Q == "\""

DigitChars == <<"0", "1", "2", "3", "4", "5", "6", "7", "8", "9">>

RECURSIVE Decimal(_)
\* printf("%d") of a number >= 0.
Decimal(n) ==
    IF n < 10 THEN <<DigitChars[n + 1]>>
    ELSE Decimal(n \div 10) \o <<DigitChars[(n % 10) + 1]>>

DigitValue(c) == CHOOSE d \in 0..9 : DigitChars[d + 1] = c

IsDigit(c) == \E d \in 0..9 : DigitChars[d + 1] = c

RECURSIVE atoi_from(_, _, _)
\* atoi on digits: the number spelled by the leading digits, 0 when there is
\* none.
atoi_from(text, i, acc) ==
    IF i > Len(text) \/ ~IsDigit(text[i]) THEN acc
    ELSE atoi_from(text, i + 1, 10 * acc + DigitValue(text[i]))

RECURSIVE strstr_from(_, _, _)
strstr_from(text, pat, i) ==
    IF i + Len(pat) - 1 > Len(text) THEN 0
    ELSE IF SubSeq(text, i, i + Len(pat) - 1) = pat THEN i
    ELSE strstr_from(text, pat, i + 1)

\* strstr: where pat first occurs in text, 0 when it does not.
strstr(text, pat) == strstr_from(text, pat, 1)

RECURSIVE strchr_from(_, _, _)
\* strchr from position i on: where c first occurs, 0 when it does not.
strchr_from(text, c, i) ==
    IF i > Len(text) THEN 0
    ELSE IF text[i] = c THEN i
    ELSE strchr_from(text, c, i + 1)

\* snprintf(buf + pos, ..., "%s\"%s\":\"%s\"", comma ? "," : "", key, val)
json_add_string(buf, key, val, comma) ==
    buf \o (IF comma THEN <<",">> ELSE <<>>) \o <<Q>> \o key \o <<Q, ":", Q>>
        \o val \o <<Q>>

\* snprintf(buf + pos, ..., "%s\"%s\":%d", comma ? "," : "", key, val)
json_add_int(buf, key, val, comma) ==
    buf \o (IF comma THEN <<",">> ELSE <<>>) \o <<Q>> \o key \o <<Q, ":">>
        \o Decimal(val)

\* json_get_string: whether "key":" is in the text, and the characters from
\* there to the next double quote (at most maxlen - 1 of them).
json_get_string(json, key, maxlen) ==
    LET search == <<Q>> \o key \o <<Q, ":", Q>>
        at == strstr(json, search)
        start == at + Len(search)
        end == strchr_from(json, Q, start)
        len == IF end - start >= maxlen THEN maxlen - 1 ELSE end - start
    IN  IF at = 0 \/ end = 0
        THEN [found |-> FALSE, val |-> <<>>]
        ELSE [found |-> TRUE, val |-> SubSeq(json, start, start + len - 1)]

\* json_get_int on the text: atoi of what follows "key":
json_get_int_text(json, key) ==
    LET search == <<Q>> \o key \o <<Q, ":">>
        at == strstr(json, search)
    IN  IF at = 0 THEN 0 ELSE atoi_from(json, at + Len(search), 0)

KeyM == <<"m">>

KeyV == <<"v">>

KeyCmd == <<"c", "m", "d">>

KeyId == <<"i", "d">>

KeySvc == <<"s", "v", "c">>

KeyIp == <<"i", "p">>

KeyPort == <<"p", "o", "r", "t">>

KeyData == <<"d", "a", "t", "a">>

KeyCaps == <<"c", "a", "p", "s">>

KeyTs == <<"t", "s">>

MagicText == <<"P", "N", "S", "D">>

HeloText == <<"h", "e", "l", "o">>

\* (int)time(NULL) when the message is built.
TimeNow == 17

\* g_discovery.local_ip, spelled out.
LocalIpText == <<"1", "0", ".", "1">>

\* build_helo_message, on the text: the presence message of descriptor svc.
build_helo_text(svc) ==
    LET b1 == json_add_string(<<"{">>, KeyM, MagicText, FALSE)
        b2 == json_add_int(b1, KeyV, PN_VERSION, TRUE)
        b3 == json_add_string(b2, KeyCmd, HeloText, TRUE)
        b4 == json_add_string(b3, KeyId, svc.id, TRUE)
        b5 == json_add_string(b4, KeySvc, svc.service, TRUE)
        b6 == json_add_string(b5, KeyIp, LocalIpText, TRUE)
        b7 == json_add_int(b6, KeyPort, svc.ctrl_port, TRUE)
        b8 == IF svc.data_port > 0
              THEN json_add_int(b7, KeyData, svc.data_port, TRUE) ELSE b7
        b9 == IF svc.caps # <<>>
              THEN json_add_string(b8, KeyCaps, svc.caps, TRUE) ELSE b8
        b10 == json_add_int(b9, KeyTs, TimeNow, TRUE)
    IN  b10 \o <<"}">>

\* The decoding steps of parse_message for a presence message (lines 505 to
\* 532): whether the text is accepted, and the fields extracted.  garbage is
\* what the caps[] buffer holds when the text has no "caps" key.
decode_helo_text(json, sender_ip, garbage) ==
    LET magic == json_get_string(json, KeyM, 8)
        cmd == json_get_string(json, KeyCmd, 16)
        id == json_get_string(json, KeyId, PN_MAX_ID_LEN)
        svc == json_get_string(json, KeySvc, PN_MAX_SERVICE_LEN)
        ip == json_get_string(json, KeyIp, PN_MAX_IP_LEN)
        caps == json_get_string(json, KeyCaps, PN_MAX_CAPS_LEN)
        ok == /\ magic.found /\ magic.val = MagicText
              /\ cmd.found /\ id.found
              /\ cmd.val = HeloText /\ svc.found
    IN  [ok |-> ok,
         id |-> id.val,
         service |-> svc.val,
         ip |-> IF ip.found THEN ip.val ELSE sender_ip,
         ctrl_port |-> json_get_int_text(json, KeyPort),
         data_port |-> json_get_int_text(json, KeyData),
         caps |-> IF caps.found THEN caps.val ELSE garbage]

\* The identities, service types and capabilities an instance announces.
CodecIds == {<<"A">>, <<"K", "4">>, <<"A", Q, "B">>}

CodecServices == {<<"s", "d", "r">>, <<>>}

CodecCaps == {<<>>, <<"r", "s", "p">>}

CodecPorts == {0, 4535}

\* What the caps[] buffer of the decoder may hold.
CodecGarbage == {<<>>, <<"x">>}

SenderIpText == <<"1", "0", ".", "9">>

\* The self descriptor before a message is built from it.
InitCodec ==
    /\ initialized = TRUE
    /\ sock = "open"
    /\ announcing = TRUE
    /\ my_service \in [id : CodecIds, service : CodecServices, ip : {LocalIpText},
                       ctrl_port : CodecPorts, data_port : CodecPorts,
                       caps : CodecCaps, active : {FALSE}]
    /\ listening = FALSE
    /\ callback = NULL
    /\ services = [i \in Slots |-> ZeroService]
    /\ last = NoLast
    /\ found = ZeroFound
    /\ announce_running = TRUE
    /\ listen_running = FALSE
    /\ pcCaller = "idle"
    /\ cont = "idle"
    /\ carg = NoArgs
    /\ pcAnn = [t \in Threads |-> "none"]
    /\ pcLis = "none"
    /\ lmsg = <<>>
    /\ net = {}
    /\ sent = <<>>
    /\ session = 0
    /\ mutex = "free"
    /\ lcb = <<>>
    /\ held = NoPointer
    /\ peers_up = Peers

\* The announce thread builds its presence message; lmsg is the text as it
\* reaches a listener.
EncodeHelo ==
    /\ last.op = "none"
    /\ lmsg' = build_helo_text(my_service)
    /\ last' = [NoLast EXCEPT !.op = "build_helo_message"]
    /\ UNCHANGED <<initialized, sock, announcing, my_service, listening, callback,
                   services, found, announce_running, listen_running, pcCaller,
                   cont, carg, pcAnn, pcLis, net, sent, session, mutex, lcb, held,
                   peers_up>>

\* A listener decodes the text.
DecodeHelo(garbage) ==
    /\ last.op = "build_helo_message"
    /\ last' = [NoLast EXCEPT !.op = "decode",
                              !.out = <<decode_helo_text(lmsg, SenderIpText, garbage)>>]
    /\ UNCHANGED <<initialized, sock, announcing, my_service, listening, callback,
                   services, found, announce_running, listen_running, pcCaller,
                   cont, carg, pcAnn, pcLis, lmsg, net, sent, session, mutex, lcb,
                   held, peers_up>>

NextCodec ==
    \/ EncodeHelo
    \/ \E g \in CodecGarbage : DecodeHelo(g)

SpecCodec == InitCodec /\ [][NextCodec]_vars

\* ------------------------------------------- SpecEncode: the bounded buffer
\* The encoder with the capacity of its buffer: pos is the write position
\* (-1 once an append has failed), hw the number of bytes of the buffer that
\* have been written to, text the characters appended so far.

\* The largest capacity tried.
MaxLen == 128

ByeText == <<"b", "y", "e">>

MaxOf(a, b) == IF a >= b THEN a ELSE b

MinOf(a, b) == IF a <= b THEN a ELSE b

\* One json_add_string / json_add_int call and the test of its result: s is
\* the text snprintf formats.  snprintf gets the size maxlen - pos and writes
\* at most size - 1 characters and the terminator; a negative size becomes a
\* size above INT_MAX, with which snprintf writes everything or fails
\* (huge_ok).  The append fails unless n > 0 and pos + n < maxlen.
AppendField(st, maxlen, s, huge_ok) ==
    IF st.pos < 0 THEN st
    ELSE LET size == maxlen - st.pos
             n == IF size < 0 /\ ~huge_ok THEN -1 ELSE Len(s)
             written == IF size = 0 \/ n < 0 THEN 0
                        ELSE IF size < 0 THEN Len(s) + 1
                        ELSE MinOf(Len(s), size - 1) + 1
         IN  [pos |-> IF n > 0 /\ st.pos + n < maxlen THEN st.pos + n ELSE -1,
              hw |-> MaxOf(st.hw, st.pos + written),
              text |-> IF n > 0 /\ st.pos + n < maxlen THEN st.text \o s
                       ELSE st.text]

\* buf[pos++] = '{' at pos = 0.
OpenBrace == [pos |-> 1, hw |-> 1, text |-> <<"{">>]

\* The test of the room for the closing brace and the terminator is
\* missing.
CloseBraceUnchecked(st, maxlen) ==
    IF st.pos < 0
    THEN [ret |-> -1, hw |-> st.hw, text |-> st.text]
    ELSE [ret |-> st.pos + 1, hw |-> MaxOf(st.hw, st.pos + 2),
          text |-> st.text \o <<"}">>]

\* if (pos + 1 >= maxlen) return -1; buf[pos++] = '}'; buf[pos] = '\0';
\* return pos.  The result: the return value, the bytes of the buffer
\* written to, the text.
CloseBrace(st, maxlen) ==
    IF st.pos < 0 \/ st.pos + 1 >= maxlen
    THEN [ret |-> -1, hw |-> st.hw, text |-> st.text]
    ELSE [ret |-> st.pos + 1, hw |-> MaxOf(st.hw, st.pos + 2),
          text |-> st.text \o <<"}">>]

\* build_helo_message(buf, maxlen) on descriptor svc.
build_helo_bounded(svc, maxlen, huge_ok) ==
    LET b1 == AppendField(OpenBrace, maxlen, json_add_string(<<>>, KeyM, MagicText, FALSE), huge_ok)
        b2 == AppendField(b1, maxlen, json_add_int(<<>>, KeyV, PN_VERSION, TRUE), huge_ok)
        b3 == AppendField(b2, maxlen, json_add_string(<<>>, KeyCmd, HeloText, TRUE), huge_ok)
        b4 == AppendField(b3, maxlen, json_add_string(<<>>, KeyId, svc.id, TRUE), huge_ok)
        b5 == AppendField(b4, maxlen, json_add_string(<<>>, KeySvc, svc.service, TRUE), huge_ok)
        b6 == AppendField(b5, maxlen, json_add_string(<<>>, KeyIp, LocalIpText, TRUE), huge_ok)
        b7 == AppendField(b6, maxlen, json_add_int(<<>>, KeyPort, svc.ctrl_port, TRUE), huge_ok)
        b8 == IF svc.data_port > 0
              THEN AppendField(b7, maxlen, json_add_int(<<>>, KeyData, svc.data_port, TRUE), huge_ok)
              ELSE b7
        b9 == IF svc.caps # <<>>
              THEN AppendField(b8, maxlen, json_add_string(<<>>, KeyCaps, svc.caps, TRUE), huge_ok)
              ELSE b8
        b10 == AppendField(b9, maxlen, json_add_int(<<>>, KeyTs, TimeNow, TRUE), huge_ok)
    IN  CloseBrace(b10, maxlen)

\* build_bye_message(buf, maxlen) on descriptor svc.
build_bye_bounded(svc, maxlen, huge_ok) ==
    LET b1 == AppendField(OpenBrace, maxlen, json_add_string(<<>>, KeyM, MagicText, FALSE), huge_ok)
        b2 == AppendField(b1, maxlen, json_add_int(<<>>, KeyV, PN_VERSION, TRUE), huge_ok)
        b3 == AppendField(b2, maxlen, json_add_string(<<>>, KeyCmd, ByeText, TRUE), huge_ok)
        b4 == AppendField(b3, maxlen, json_add_string(<<>>, KeyId, svc.id, TRUE), huge_ok)
        b5 == AppendField(b4, maxlen, json_add_int(<<>>, KeyTs, TimeNow, TRUE), huge_ok)
    IN  CloseBrace(b5, maxlen)

\* The text build_bye_message writes when the buffer is large enough.
build_bye_text(svc) ==
    LET b1 == json_add_string(<<"{">>, KeyM, MagicText, FALSE)
        b2 == json_add_int(b1, KeyV, PN_VERSION, TRUE)
        b3 == json_add_string(b2, KeyCmd, ByeText, TRUE)
        b4 == json_add_string(b3, KeyId, svc.id, TRUE)
        b5 == json_add_int(b4, KeyTs, TimeNow, TRUE)
    IN  b5 \o <<"}">>

\* A self descriptor and a buffer of maxlen bytes (kept in last.arg).
InitEncode ==
    /\ initialized = TRUE
    /\ sock = "open"
    /\ announcing = TRUE
    /\ my_service \in [id : CodecIds, service : CodecServices, ip : {LocalIpText},
                       ctrl_port : CodecPorts, data_port : CodecPorts,
                       caps : CodecCaps, active : {FALSE}]
    /\ listening = FALSE
    /\ callback = NULL
    /\ services = [i \in Slots |-> ZeroService]
    /\ last \in {[NoLast EXCEPT !.op = "buffer", !.arg = n] : n \in 0..MaxLen}
    /\ found = ZeroFound
    /\ announce_running = TRUE
    /\ listen_running = FALSE
    /\ pcCaller = "idle"
    /\ cont = "idle"
    /\ carg = NoArgs
    /\ pcAnn = [t \in Threads |-> "none"]
    /\ pcLis = "none"
    /\ lmsg = <<>>
    /\ net = {}
    /\ sent = <<>>
    /\ session = 0
    /\ mutex = "free"
    /\ lcb = <<>>
    /\ held = NoPointer
    /\ peers_up = Peers

\* build_helo_message(buf, maxlen): the return value goes to last.ret, the
\* number of bytes written to to last.idx, the text to last.out.
BuildHelo(huge_ok) ==
    /\ last.op = "buffer"
    /\ LET r == build_helo_bounded(my_service, last.arg, huge_ok)
       IN  last' = [last EXCEPT !.op = "build_helo_message", !.ret = r.ret,
                                !.idx = r.hw, !.out = r.text]
    /\ UNCHANGED <<initialized, sock, announcing, my_service, listening, callback,
                   services, found, announce_running, listen_running, pcCaller,
                   cont, carg, pcAnn, pcLis, lmsg, net, sent, session, mutex, lcb,
                   held, peers_up>>

\* build_bye_message(buf, maxlen).
BuildBye(huge_ok) ==
    /\ last.op = "buffer"
    /\ LET r == build_bye_bounded(my_service, last.arg, huge_ok)
       IN  last' = [last EXCEPT !.op = "build_bye_message", !.ret = r.ret,
                                !.idx = r.hw, !.out = r.text]
    /\ UNCHANGED <<initialized, sock, announcing, my_service, listening, callback,
                   services, found, announce_running, listen_running, pcCaller,
                   cont, carg, pcAnn, pcLis, lmsg, net, sent, session, mutex, lcb,
                   held, peers_up>>

NextEncode ==
    \/ \E huge_ok \in BOOLEAN : BuildHelo(huge_ok)
    \/ \E huge_ok \in BOOLEAN : BuildBye(huge_ok)

SpecEncode == InitEncode /\ [][NextEncode]_vars

\* ---------------------------------------------------------------- claims

ActiveSlots(svcs) == {i \in Slots : svcs[i].active}

HasActive(svcs, id) == \E i \in Slots : svcs[i].active /\ svcs[i].id = id

\* The datagram passes the decoder's checks for its message kind.
WellFormed(msg) ==
    /\ {"m", "cmd", "id"} \subseteq msg.keys
    /\ msg.m = PN_MAGIC
    /\ (msg.cmd = "helo" => "svc" \in msg.keys)

\* The fields a presence message stands for: an absent address is the
\* sender's, absent ports are 0, absent capabilities are empty.
HeloFields(msg, sender_ip) ==
    [id |-> msg.id, service |-> msg.svc,
     ip |-> IF "ip" \in msg.keys THEN msg.ip ELSE sender_ip,
     ctrl_port |-> IF "port" \in msg.keys THEN msg.port ELSE 0,
     data_port |-> IF "data" \in msg.keys THEN msg.data ELSE 0,
     caps |-> IF "caps" \in msg.keys THEN msg.caps ELSE "",
     active |-> TRUE]

\* C1: in every reachable state at most one active slot holds any given
\* identity, whatever service types the presence messages carried.
C1_OneActivePerIdentity ==
    \A i, j \in Slots :
        (services[i].active /\ services[j].active /\ services[i].id = services[j].id)
            => i = j

\* A presence message refreshed a record that had another service type.
C1_Witness ==
    /\ last.op = "parse_message"
    /\ last.msg.cmd = "helo"
    /\ last.was \notin {NULL, last.msg.svc}
    /\ Cardinality({i \in Slots : services[i].active /\ services[i].id = last.msg.id}) = 1
    /\ Cardinality(ActiveSlots(services)) = PN_MAX_SERVICES

\* C2: a presence message for identity X (not the local announcing identity,
\* registry not full or X already present) leaves exactly one active record
\* for X, and its fields are those of that message.
C2_LastWriteWins ==
    [][ \A ip \in SenderIps :
          ( /\ last'.op = "parse_message"
            /\ last'.msg.cmd = "helo"
            /\ WellFormed(last'.msg)
            /\ ~(announcing /\ my_service.id = last'.msg.id)
            /\ (HasActive(services, last'.msg.id) \/ ActiveSlots(services) # Slots) )
          => \E i \in Slots :
                /\ services'[i] = HeloFields(last'.msg, ip)
                /\ \A j \in Slots :
                      (services'[j].active /\ services'[j].id = last'.msg.id) => j = i
      ]_vars

\* C3: per identity, at most one is_bye=false callback fires between the
\* start (or the last processed departure of it) and its next departure, and
\* a processed presence message of a peer leaves that one callback fired.
C3_OncePerAppearance ==
    [][ (last'.op = "parse_message" /\ last'.msg.cmd = "helo" /\ WellFormed(last'.msg)
           /\ ~(announcing /\ my_service.id = last'.msg.id) /\ callback # NULL)
        => /\ found'[last'.msg.id]
           /\ (last'.cb # <<>> => ~found[last'.msg.id])
      ]_vars

\* C4: while announcing identity X, a received message with identity X
\* changes no registry slot and invokes no callback.
C4_SelfSuppressed ==
    [][ (last'.op = "parse_message" /\ announcing /\ "id" \in last'.msg.keys
           /\ last'.msg.id = my_service.id)
        => (services' = services /\ last'.cb = <<>>)
      ]_vars

\* Own presence and departure messages were received while a peer is known.
C4_Witness ==
    /\ last.op = "parse_message"
    /\ announcing
    /\ last.msg = HeloFull(my_service.id)
    /\ last.cb = <<>>
    /\ ActiveSlots(services) # {}
    /\ ~HasActive(services, my_service.id)

\* C7: a departure message for an identity with an active record marks the
\* record inactive and invokes the callback once with is_bye=true, the
\* identity and the record's service type, IP and control port; afterwards
\* pn_find_service_by_id returns none until a presence message for that
\* identity is processed.
C7_DepartureReported ==
    [][ /\ ( /\ last'.op = "parse_message"
             /\ last'.msg.cmd = "bye"
             /\ WellFormed(last'.msg)
             /\ ~(announcing /\ my_service.id = last'.msg.id)
             /\ callback # NULL
             /\ HasActive(services, last'.msg.id) )
           => \E i \in Slots :
                /\ services[i].active /\ services[i].id = last'.msg.id
                /\ ~services'[i].active
                /\ Len(last'.cb) = 1
                /\ last'.cb[1].is_bye
                /\ last'.cb[1].id = last'.msg.id
                /\ last'.cb[1].service = services[i].service
                /\ last'.cb[1].ip = services[i].ip
                /\ last'.cb[1].ctrl_port = services[i].ctrl_port
                /\ pn_find_service_by_id(services', last'.msg.id) = 0
        /\ \A x \in Ids :
              (pn_find_service_by_id(services, x) = 0
                  /\ pn_find_service_by_id(services', x) # 0)
              => (last'.op = "parse_message" /\ last'.msg.cmd = "helo"
                    /\ last'.msg.id = x)
      ]_vars

\* C8: a departure message for an identity with no active record changes
\* no registry slot and invokes no callback.
C8_UnknownDepartureIgnored ==
    [][ (last'.op = "parse_message" /\ last'.msg.cmd = "bye"
           /\ ~HasActive(services, last'.msg.id))
        => (services' = services /\ last'.cb = <<>>)
      ]_vars

\* A departure of an unknown identity was processed while other peers are
\* known.
C8_Witness ==
    /\ last.op = "parse_message"
    /\ last.msg = Bye("C")
    /\ last.ret = 0
    /\ last.was = NULL
    /\ ~(announcing /\ my_service.id = "C")
    /\ ~HasActive(services, "C")
    /\ Cardinality(ActiveSlots(services)) = PN_MAX_SERVICES

\* C9: a presence message for an unknown identity arriving at a full
\* registry raises no error, leaves every record unchanged and leaves the
\* count at PN_MAX_SERVICES; the count is always within 0..PN_MAX_SERVICES.
C9_FullRegistryDrops ==
    /\ [](pn_get_service_count(services) \in 0..PN_MAX_SERVICES)
    /\ [][ (last'.op = "parse_message" /\ last'.msg.cmd = "helo"
              /\ WellFormed(last'.msg)
              /\ ActiveSlots(services) = Slots
              /\ ~HasActive(services, last'.msg.id))
           => (last'.ret = 0 /\ services' = services
                 /\ pn_get_service_count(services') = PN_MAX_SERVICES)
         ]_vars

\* A presence message of a third identity was dropped at a full registry.
C9_Witness ==
    /\ last.op = "parse_message"
    /\ last.msg.cmd = "helo"
    /\ WellFormed(last.msg)
    /\ ~(announcing /\ my_service.id = last.msg.id)
    /\ last.idx = 0
    /\ last.ret = 0
    /\ ActiveSlots(services) = Slots
    /\ ~HasActive(services, last.msg.id)

\* The number of active slots below slot i.
ActiveBelow(svcs, i) == Cardinality({j \in Slots : j < i /\ svcs[j].active})

Min(a, b) == IF a <= b THEN a ELSE b

\* C10: pn_get_services(out, maxCount) with maxCount >= 0 returns
\* min(maxCount, number of active records) entries, the k-th a copy of the
\* k-th active record in slot order; no inactive record is returned.
C10_SnapshotBounded ==
    (last.op = "pn_get_services" /\ last.arg >= 0)
    => /\ last.ret = Min(last.arg, Cardinality(ActiveSlots(services)))
       /\ Len(last.out) = last.ret
       /\ \A k \in 1..Len(last.out) :
             /\ last.out[k].active
             /\ \E i \in Slots :
                   /\ services[i].active
                   /\ ActiveBelow(services, i) = k - 1
                   /\ last.out[k] = services[i]

\* A snapshot was cut short by maxCount, and it skipped an inactive slot
\* that still holds an old record.
C10_Witness ==
    /\ last.op = "pn_get_services"
    /\ last.arg = 1
    /\ last.ret = 1
    /\ ~services[1].active /\ services[1].id # ""
    /\ last.out = <<services[2]>>

\* C5: the departure message is the last message broadcast for its session:
\* no presence message of a session is broadcast after that session's
\* departure message.
C5_ByeIsLast ==
    \A i, j \in 1..Len(sent) :
        (i < j /\ sent[i].kind = "bye" /\ sent[j].kind = "helo")
            => sent[i].session # sent[j].session

\* C6: an identity this instance has announced never becomes an active
\* registry record and never triggers a callback.
C6_NeverDiscoversSelf ==
    \A k \in 1..Len(sent) :
        ~HasActive(services, sent[k].id) /\ ~found[sent[k].id]

\* C11: pn_find_service(serviceType) returns the active record with the
\* lowest slot index whose service type equals serviceType, and none when
\* no active record has that type; an inactive record is never returned.
C11_FirstActiveOfType ==
    last.op = "pn_find_service"
    => LET S == {i \in Slots : services[i].active /\ services[i].service = last.arg}
       IN  IF S = {} THEN last.idx = 0
           ELSE last.idx \in S /\ \A j \in S : last.idx <= j

\* A lookup passed over an inactive record of the type asked for and
\* returned the active record behind it.
C11_Witness ==
    /\ last.op = "pn_find_service"
    /\ ~services[1].active /\ services[1].service = last.arg
    /\ services[2].active /\ services[2].service = last.arg
    /\ last.idx = 2

\* C12: the record obtained from pn_find_service or pn_find_service_by_id
\* keeps the field values it had when the call returned, whatever messages
\* are processed afterwards.
C12_PointerIsCopy ==
    held.slot # 0 => services[held.slot] = held.rec

\* C13: the user callback is never invoked while the registry lock is held,
\* and the lock is never held during a broadcast send or a socket receive:
\* only the listener thread ever owns the mutex, and only while it is at the
\* registry update of parse_message, not at recvfrom and not in the callback.
C13_LockOnlyAtUpdate ==
    /\ mutex \in {"free", "listener", "destroyed"}
    /\ mutex = "listener" => pcLis = "L_locked"
    /\ pcLis \in {"L_callback", "L_recvfrom"} => mutex # "listener"

\* The callback for a peer runs, after a registry update under the lock,
\* while an announce thread is about to broadcast.
C13_Witness ==
    /\ pcLis = "L_callback"
    /\ lcb # <<>>
    /\ HasActive(services, lcb[1].id)
    /\ mutex = "free"
    /\ \E t \in Threads : pcAnn[t] \in {"T_helo0", "T_build"}

\* The departure messages broadcast for session s.
ByesOf(s) == {i \in 1..Len(sent) : sent[i].kind = "bye" /\ sent[i].session = s}

\* C14: every announce session that is ended (by pn_announce_stop, by
\* re-announcing or by pn_discovery_shutdown) has broadcast exactly one
\* departure message, carrying the identity the session announced; no
\* session ever has two; pn_announce_stop called while not announcing
\* broadcasts nothing and changes no state.
C14_OneByePerSession ==
    /\ [](\A s \in 0..MaxSessions : Cardinality(ByesOf(s)) <= 1)
    /\ [][ (announcing /\ ~announcing')
           => /\ Cardinality(ByesOf(session)) = 1
              /\ \A i \in ByesOf(session) : sent[i].id = my_service.id /\ sent[i].open
              /\ sent' = sent /\ session' = session
         ]_vars
    /\ [][ (announcing /\ announcing') => (my_service' = my_service /\ session' = session)
         ]_vars
    /\ [][ (pcCaller = "stop_check" /\ ~announcing /\ pcCaller' # pcCaller)
           => /\ pcCaller' = cont
              /\ UNCHANGED <<initialized, sock, announcing, my_service, listening,
                             callback, services, found, announce_running,
                             listen_running, pcAnn, pcLis, lmsg, net, sent,
                             session, mutex, lcb>>
         ]_vars

\* Two sessions were ended, the first by re-announcing, each with its one
\* departure message, and pn_announce_stop is called again.
C14_Witness ==
    /\ pcCaller = "stop_check"
    /\ ~announcing
    /\ session = 2
    /\ \E i \in ByesOf(1), j \in ByesOf(2) : sent[i].id = "A" /\ sent[j].id = "B"

\* The announce threads that exist and have not exited.
RunningThreads == {t \in Threads : pcAnn[t] \notin {"none", "done"}}

\* C15: pn_announce while a session is announcing first completes a full
\* stop of the old session (departure message broadcast, old announce
\* thread exited) before any presence message with the new descriptor is
\* broadcast, and at most one announce thread exists at any time: every
\* presence message is sent by the thread of the session whose descriptor
\* it carries, and after the departure message of the session before.
C15_FullStopBeforeRestart ==
    /\ Cardinality(RunningThreads) <= 1
    /\ \A j \in 1..Len(sent) :
          sent[j].kind = "helo"
          => /\ sent[j].thread = sent[j].session
             /\ sent[j].session > 1
                => \E i \in 1..(j - 1) :
                      sent[i].kind = "bye" /\ sent[i].session = sent[j].session - 1

\* Thread t belongs to a session pn_announce_stop has returned from.
Stopped(t) == t < session \/ (t = session /\ ~announcing)

\* The broadcast added by this step, if any, comes from thread t.
SentBy(t) == Len(sent') > Len(sent) /\ sent'[Len(sent')].thread = t

\* C16: pn_announce_stop is synchronous: when it returns (announcing
\* becomes false) the announce thread has exited, and no message is
\* broadcast by that session's thread after the return.
C16_StopIsSynchronous ==
    [][ /\ (announcing /\ ~announcing') => pcAnn'[session] \in {"none", "done"}
        /\ \A t \in Threads : Stopped(t) => ~SentBy(t)
      ]_vars

\* C17: the announce thread broadcasts one presence message with the
\* supplied descriptor before any sleep, and every later presence message
\* follows a sleep that ran its whole interval: a thread past its first
\* statement has sent a message, its first message is sent at the initial
\* announcement under its own session's descriptor, and each later one after
\* the sleep loop has ended on the interval, not on the stop flag.
C17_AnnounceOnJoinThenSleep ==
    /\ [](\A t \in Threads :
             pcAnn[t] \notin {"none", "T_helo0"}
             => \E i \in 1..Len(sent) : sent[i].thread = t /\ sent[i].kind = "helo")
    /\ [][ \A t \in Threads :
              SentBy(t)
              => /\ sent'[Len(sent')].kind = "helo"
                 /\ sent'[Len(sent')].id = my_service.id
                 /\ \/ pcAnn[t] = "T_helo0" /\ sent'[Len(sent')].session = t
                    \/ pcAnn[t] = "T_build"
         ]_vars

\* C18: pn_listen called while already listening returns success and has
\* no additional effect: the callback registered by the first call stays in
\* force and nothing else changes, whatever a thread creation would have
\* returned.
C18_ListenAgainIsNoOp ==
    [][ (last'.op = "pn_listen" /\ initialized /\ listening)
        => /\ last'.ret = 0
           /\ UNCHANGED <<initialized, sock, announcing, my_service, listening,
                          callback, services, found, conc>>
      ]_vars

\* A repeated pn_listen passed another callback and the first one is
\* still registered.
C18_Witness ==
    /\ last.op = "pn_listen"
    /\ last.arg = NULL
    /\ last.ret = 0
    /\ listening
    /\ callback = "on_service_found"

\* C19: pn_discovery_shutdown sends the departure message if announcing,
\* waits for the announce thread and the listener thread to exit before it
\* closes the socket (no thread ever sends or receives on a closed socket),
\* leaves initialized, announcing and listening false, and a second call
\* has no effect and sends nothing.
C19_ShutdownIsClean ==
    /\ [](\A i \in 1..Len(sent) : sent[i].open)
    /\ [](pcLis = "L_recvfrom" => sock = "open")
    /\ [][ (initialized /\ ~initialized')
           => /\ ~announcing' /\ ~listening'
              /\ sock' # "open"
              /\ RunningThreads = {}
              /\ pcLis \in {"none", "done"}
              /\ \A s \in 1..session : ByesOf(s) # {}
         ]_vars
    /\ [][ (pcCaller = "shutdown" /\ ~initialized /\ pcCaller' # pcCaller)
           => /\ pcCaller' = "idle"
              /\ UNCHANGED <<initialized, sock, announcing, my_service, listening,
                             callback, services, found, announce_running,
                             listen_running, pcAnn, pcLis, lmsg, net, sent,
                             session, mutex, lcb>>
         ]_vars

\* C20: a peer whose presence messages have stopped, without a departure
\* message, is eventually marked inactive: it does not remain an active
\* record forever.
C20_SilentPeerExpires ==
    \A p \in Peers :
        (p \notin peers_up /\ HasActive(services, p)) ~> ~HasActive(services, p)

\* The header of the datagram fails the decoder: no protocol tag or another
\* tag than PN_MAGIC, no message kind, or no identity.
BadHeader(msg) ==
    \/ "m" \notin msg.keys
    \/ msg.m # PN_MAGIC
    \/ "cmd" \notin msg.keys
    \/ "id" \notin msg.keys

\* C21: a received datagram whose protocol tag is missing or differs from
\* PN_MAGIC, or which lacks the identity or the message kind, is rejected
\* whatever else it carries: parse_message returns -1, no registry slot
\* changes and no callback is invoked.
C21_BadHeaderRejected ==
    [][ (last'.op = "parse_message" /\ BadHeader(last'.msg))
        => (last'.ret = -1 /\ services' = services /\ last'.cb = <<>>)
      ]_vars

\* A departure message with a foreign tag was received for a peer that is
\* known, with a callback registered.
C21_Witness ==
    /\ last.op = "parse_message"
    /\ last.msg = [Bye("B") EXCEPT !.m = "XXXX"]
    /\ last.ret = -1
    /\ callback # NULL
    /\ HasActive(services, "B")

\* C22: decoding the presence message built from a self descriptor recovers
\* the identity, service type, IP, control port, data port and capabilities
\* of the descriptor; a data port of 0 and empty capabilities, which the
\* encoder leaves out, decode to 0 and to the empty string.
C22_RoundTrip ==
    last.op = "decode"
    => LET d == last.out[1]
       IN  /\ d.ok
           /\ d.id = my_service.id
           /\ d.service = my_service.service
           /\ d.ip = my_service.ip
           /\ d.ctrl_port = my_service.ctrl_port
           /\ d.data_port = my_service.data_port
           /\ d.caps = my_service.caps

\* C23: pn_announce and pn_listen called while the system is not initialised
\* (before pn_discovery_init, or after pn_discovery_shutdown) return -1,
\* start no thread and leave announcing, listening, the callback and the
\* self descriptor as they were.
C23_UninitialisedCallsFail ==
    [][ (pcCaller \in {"announce", "listen"} /\ ~initialized /\ pcCaller' # pcCaller)
        => /\ pcCaller' = "idle"
           /\ last'.op = (IF pcCaller = "announce" THEN "pn_announce" ELSE "pn_listen")
           /\ last'.ret = -1
           /\ UNCHANGED <<announcing, listening, callback, my_service,
                          announce_running, listen_running, pcAnn, pcLis, session>>
      ]_vars

\* pn_announce has failed after a shutdown that followed a session.
C23_Witness ==
    /\ last.op = "pn_announce"
    /\ last.ret = -1
    /\ pcCaller = "idle"
    /\ ~initialized
    /\ sock = "invalid"
    /\ session >= 1
    /\ my_service.id # ""

\* C24: when pn_discovery_init fails (socket creation, broadcast flag or
\* bind) it returns -1 and keeps nothing: initialized stays false, the socket
\* it created is closed, and no thread is started.
C24_FailedInitKeepsNothing ==
    [][ (last'.op = "pn_discovery_init" /\ ~initialized /\ last'.arg # "ok")
        => /\ last'.ret = -1
           /\ ~initialized'
           /\ sock' = (IF last'.arg = "socket_fail" THEN "invalid" ELSE "closed")
           /\ ~announcing' /\ ~listening'
           /\ UNCHANGED <<announce_running, listen_running, pcAnn, pcLis>>
      ]_vars

\* bind has failed: the socket that was created is closed again.
C24_Witness ==
    /\ last.op = "pn_discovery_init"
    /\ last.arg = "bind_fail"
    /\ last.ret = -1
    /\ sock = "closed"
    /\ ~initialized

\* C25: whenever the callback is invoked with is_bye=false for an identity,
\* the registry holds an active record of that identity; a presence message
\* dropped at a full registry is not reported to the callback.
C25_DiscoveredMeansStored ==
    [][ (last'.op = "parse_message" /\ last'.cb # <<>> /\ ~last'.cb[1].is_bye)
        => HasActive(services', last'.cb[1].id)
      ]_vars

\* C26: every active-to-inactive transition of a record caused by a
\* departure message is reported by exactly one is_bye=true callback for the
\* record's identity when a callback is registered, whatever the record
\* holds, an empty service type included.
C26_EveryDepartureReported ==
    [][ \A i \in Slots :
          (last'.op = "parse_message" /\ callback # NULL
             /\ services[i].active /\ ~services'[i].active)
          => /\ Len(last'.cb) = 1
             /\ last'.cb[1].is_bye
             /\ last'.cb[1].id = services[i].id
      ]_vars

\* C27: the departure callback reports the last-known fields in full: its
\* data port and capabilities are those of the record just removed.
C27_DepartureCarriesAllFields ==
    [][ (last'.op = "parse_message" /\ last'.cb # <<>> /\ last'.cb[1].is_bye)
        => \E i \in Slots :
              /\ services[i].active /\ ~services'[i].active
              /\ services[i].id = last'.cb[1].id
              /\ last'.cb[1].data_port = services[i].data_port
              /\ last'.cb[1].caps = services[i].caps
      ]_vars

\* C28: a presence message without the data port, the capabilities or the
\* control port is accepted, and the record and the callback it yields have
\* data port 0, empty capabilities and control port 0 respectively, whatever
\* was processed before.
C28_AbsentFieldsDefault ==
    [][ ( /\ last'.op = "parse_message"
          /\ last'.msg.cmd = "helo"
          /\ WellFormed(last'.msg)
          /\ ~(announcing /\ my_service.id = last'.msg.id)
          /\ (HasActive(services, last'.msg.id) \/ ActiveSlots(services) # Slots) )
        => /\ last'.ret = 0
           /\ \E i \in Slots :
                 /\ services'[i].active /\ services'[i].id = last'.msg.id
                 /\ ("data" \notin last'.msg.keys => services'[i].data_port = 0)
                 /\ ("port" \notin last'.msg.keys => services'[i].ctrl_port = 0)
                 /\ ("caps" \notin last'.msg.keys => services'[i].caps = "")
           /\ last'.cb # <<>>
                 => /\ ("data" \notin last'.msg.keys => last'.cb[1].data_port = 0)
                    /\ ("port" \notin last'.msg.keys => last'.cb[1].ctrl_port = 0)
                    /\ ("caps" \notin last'.msg.keys => last'.cb[1].caps = "")
      ]_vars

\* C29: a session announces the descriptor of its own pn_announce call: the
\* presence messages of a session started with capabilities NULL carry no
\* capabilities, whatever an earlier session announced.
C29_SessionUsesOwnDescriptor ==
    \A msg \in net :
        (msg.cmd = "helo" /\ \E a \in AnnounceArgs : a.id = msg.id /\ a.caps = NULL)
            => "caps" \notin msg.keys

\* C30: a presence message for an identity with no active record is stored
\* in the lowest inactive slot, a slot freed by a departure included, and no
\* other slot changes; a record never moves to another slot.
C30_FirstFit ==
    [][ /\ ( /\ last'.op = "parse_message"
             /\ last'.msg.cmd = "helo"
             /\ WellFormed(last'.msg)
             /\ ~(announcing /\ my_service.id = last'.msg.id)
             /\ ~HasActive(services, last'.msg.id)
             /\ ActiveSlots(services) # Slots )
           => \E i \in Slots :
                 /\ ~services[i].active
                 /\ \A j \in Slots : j < i => services[j].active
                 /\ services'[i].active /\ services'[i].id = last'.msg.id
                 /\ \A j \in Slots : j # i => services'[j] = services[j]
        /\ \A i \in Slots :
              (services[i].active /\ services'[i].active)
                  => services'[i].id = services[i].id
      ]_vars

\* A presence message was stored in slot 1, which a departure had freed,
\* below a slot that is in use.
C30_Witness ==
    /\ last.op = "parse_message"
    /\ last.msg.cmd = "helo"
    /\ last.was = NULL
    /\ last.idx = 1
    /\ services[1].active /\ services[1].id = last.msg.id
    /\ services[2].active

\* The announce thread of session t has been created and has not returned.
AnnounceThreadAlive(t) == pcAnn[t] \notin {"none", "done"}

ListenThreadAlive == pcLis \notin {"none", "done"}

\* C31: a thread starts a new one-second slice only while its flag is set;
\* once announce_running is cleared the announce thread terminates, and
\* pn_announce_stop returns; once listen_running is cleared the listener
\* thread terminates.
C31_StopTakesEffect ==
    /\ [][ \A t \in Threads :
             (pcAnn'[t] = "T_slice" /\ pcAnn[t] # "T_slice") => announce_running
         ]_vars
    /\ \A t \in Threads :
          (AnnounceThreadAlive(t) /\ ~announce_running) ~> ~AnnounceThreadAlive(t)
    /\ (pcCaller \in {"stop_check", "stop_bye", "stop_flag", "stop_join"})
          ~> (pcCaller \notin {"stop_check", "stop_bye", "stop_flag", "stop_join"})
    /\ (ListenThreadAlive /\ ~listen_running) ~> ~ListenThreadAlive

\* C32: get_random_interval returns a whole number of seconds in
\* PN_ANNOUNCE_MIN_SEC..PN_ANNOUNCE_MAX_SEC, and a periodic presence message
\* of a session that is not stopped goes out after exactly that many
\* one-second slices: every interval between two consecutive presence
\* messages is in that range.
C32_IntervalInRange ==
    /\ last.op = "get_random_interval"
          => /\ last.ret \in PN_ANNOUNCE_MIN_SEC..PN_ANNOUNCE_MAX_SEC
             /\ last.idx <= last.ret
             /\ pcAnn[1] = "T_build" => last.idx = last.ret
    /\ last.out # <<>> => last.out[1] \in PN_ANNOUNCE_MIN_SEC..PN_ANNOUNCE_MAX_SEC

\* Both bounds occur: a presence message went out after the shortest
\* interval and the next one is due after the longest.
C32_Witness ==
    /\ pcAnn[1] = "T_build"
    /\ last.out = <<PN_ANNOUNCE_MIN_SEC>>
    /\ last.idx = PN_ANNOUNCE_MAX_SEC

====
